---- MODULE Spec2Model ----
(***************************************************************************)
(* Index access-control filter of the OpenSearch MCP server                *)
(* (src/src/tools/index_filter.py) and the tool handlers that call it      *)
(* (src/src/tools/tools.py, src/src/opensearch/helper.py).                 *)
(*                                                                         *)
(* A Python str is a sequence of one-character strings; None is the        *)
(* one-element sequence <<"None">>, which is no str of the model because   *)
(* its element is not a single character.  A Python tuple (bool, reason)   *)
(* is the TLA+ tuple <<allowed, reason>>.  The module global               *)
(* _index_filter_config, an Optional[IndexFilterConfig], is a set of at    *)
(* most one policy: {} is None.  environ holds the two environment         *)
(* variables the loader reads, the empty str when a variable is unset.     *)
(***************************************************************************)
EXTENDS Integers, Sequences, FiniteSets, TLC

VARIABLES _index_filter_config, environ, result, evaluated, calls, threads

vars == <<_index_filter_config, environ, result, evaluated, calls, threads>>

----------------------------------------------------------------------------
(* Python values *)

None == <<"None">>

\* Python truthiness of a str, a list or None: `not x`.
Falsy(x) == x = None \/ x = <<>>

\* str.strip() removes these from both ends.
Whitespace == {" ", "\t", "\n"}

RECURSIVE lstrip(_)
lstrip(s) ==
    IF s # <<>> /\ Head(s) \in Whitespace THEN lstrip(Tail(s)) ELSE s

RECURSIVE rstrip(_)
rstrip(s) ==
    IF s # <<>> /\ s[Len(s)] \in Whitespace
    THEN rstrip(SubSeq(s, 1, Len(s) - 1))
    ELSE s

strip(s) == rstrip(lstrip(s))

\* str.split(','): always at least one segment, empty segments kept.
RECURSIVE split(_)
split(s) ==
    IF \A i \in 1..Len(s) : s[i] # ","
    THEN <<s>>
    ELSE LET i == CHOOSE k \in 1..Len(s) :
                     s[k] = "," /\ \A j \in 1..(k - 1) : s[j] # ","
         IN  <<SubSeq(s, 1, i - 1)>> \o split(SubSeq(s, i + 1, Len(s)))

\* ','.join(parts)
RECURSIVE join(_)
join(parts) ==
    IF parts = <<>> THEN <<>>
    ELSE IF Len(parts) = 1 THEN parts[1]
    ELSE parts[1] \o <<",">> \o join(Tail(parts))

startswith(s, prefix) ==
    Len(s) >= Len(prefix) /\ SubSeq(s, 1, Len(prefix)) = prefix

----------------------------------------------------------------------------
(* Pattern matching: IndexFilterConfig._matches_pattern *)

\* Mutant: the pattern has to match a prefix of the name only.
RECURSIVE fnmatch_prefix(_, _)
fnmatch_prefix(name, pat) ==
    IF pat = <<>> THEN TRUE
    ELSE IF Head(pat) = "*"
         THEN fnmatch_prefix(name, Tail(pat))
              \/ (name # <<>> /\ fnmatch_prefix(Tail(name), pat))
    ELSE IF Head(pat) = "?"
         THEN name # <<>> /\ fnmatch_prefix(Tail(name), Tail(pat))
    ELSE name # <<>> /\ Head(name) = Head(pat)
         /\ fnmatch_prefix(Tail(name), Tail(pat))

\* fnmatch.fnmatch on a POSIX host (normcase is the identity): the pattern is
\* matched against the whole name, '*' is any run of characters, '?' is one
\* character, every other character of the model's alphabet is literal.
RECURSIVE fnmatch(_, _)
fnmatch(name, pat) ==
    IF pat = <<>> THEN name = <<>>
    ELSE IF Head(pat) = "*"
         THEN fnmatch(name, Tail(pat))
              \/ (name # <<>> /\ fnmatch(Tail(name), pat))
    ELSE IF Head(pat) = "?"
         THEN name # <<>> /\ fnmatch(Tail(name), Tail(pat))
    ELSE name # <<>> /\ Head(name) = Head(pat)
         /\ fnmatch(Tail(name), Tail(pat))

\* The depth of calls at which the interpreter raises RecursionError
\* (sys.getrecursionlimit(), scaled down here): the parsers of re and json
\* recurse once per nested group or array.
RecursionLimit == 3

\* The regex subset of the model: literals, '.', postfix '*', '^', '$' and
\* '(' (no ')' is in the alphabet, so a group is never closed).
\* The positions at which the parser of re.compile raises re.error
\* "nothing to repeat" or "multiple repeat": a '*' at the start, or after
\* an anchor, an opening parenthesis or another '*'.
star_errors(regex) ==
    {i \in 1..Len(regex) :
        regex[i] = "*" /\ (i = 1 \/ regex[i - 1] \in {"*", "^", "$", "("})}

\* The positions of the opening parentheses.
groups(regex) == {i \in 1..Len(regex) : regex[i] = "("}

\* The position at which the parser, descending one call per open group,
\* reaches the recursion limit; 0 when it does not.
group_limit(regex) ==
    IF Cardinality(groups(regex)) < RecursionLimit THEN 0
    ELSE CHOOSE i \in groups(regex) :
             Cardinality({j \in groups(regex) : j <= i}) = RecursionLimit

\* re.compile raises RecursionError, which is no re.error: the parser
\* reaches the recursion limit before it meets a '*' it rejects.
re_raises(regex) ==
    /\ group_limit(regex) # 0
    /\ \A i \in star_errors(regex) : i > group_limit(regex)

\* re.compile raises re.error: a '*' with nothing to repeat, or a group
\* that is left open at the end of the pattern.
re_error(regex) ==
    ~re_raises(regex) /\ (star_errors(regex) # {} \/ groups(regex) # {})

\* '.' stands for every character but the newline, any other atom for
\* itself.
re_atom(c, ch) == (c = "." /\ ch # "\n") \/ c = ch

\* Mutant: the match has to end at the end of the name (re.fullmatch).
RECURSIVE re_match_at_full(_, _, _)
re_match_at_full(regex, name, i) ==
    IF regex = <<>> THEN i = Len(name) + 1
    ELSE LET c == Head(regex) IN
         IF c = "^" THEN i = 1 /\ re_match_at_full(Tail(regex), name, i)
         ELSE IF c = "$"
              THEN i = Len(name) + 1 /\ re_match_at_full(Tail(regex), name, i)
         ELSE IF Len(regex) >= 2 /\ regex[2] = "*"
              THEN re_match_at_full(Tail(Tail(regex)), name, i)
                   \/ (i <= Len(name) /\ re_atom(c, name[i])
                       /\ re_match_at_full(regex, name, i + 1))
         ELSE i <= Len(name) /\ re_atom(c, name[i])
              /\ re_match_at_full(Tail(regex), name, i + 1)

\* re.match of a pattern that compiles: the regex matches at position i of
\* name (1-based); the match may end anywhere.  '^' matches at the start
\* of the name, '$' at its end and before a newline that ends it.
RECURSIVE re_match_at(_, _, _)
re_match_at(regex, name, i) ==
    IF regex = <<>> THEN TRUE
    ELSE LET c == Head(regex) IN
         IF c = "^" THEN i = 1 /\ re_match_at(Tail(regex), name, i)
         ELSE IF c = "$"
              THEN /\ \/ i = Len(name) + 1
                      \/ (i = Len(name) /\ name[i] = "\n")
                   /\ re_match_at(Tail(regex), name, i)
         ELSE IF Len(regex) >= 2 /\ regex[2] = "*"
              THEN re_match_at(Tail(Tail(regex)), name, i)
                   \/ (i <= Len(name) /\ re_atom(c, name[i])
                       /\ re_match_at(regex, name, i + 1))
         ELSE i <= Len(name) /\ re_atom(c, name[i])
              /\ re_match_at(Tail(regex), name, i + 1)

RegexTag == <<"r", "e", "g", "e", "x", ":">>

\* A whole call of _matches_pattern: the value returned and the exception
\* that leaves it (None when it returns).  The except clause names
\* re.error only.
_matches_pattern_run(index_name, pattern) ==
    IF startswith(pattern, RegexTag)
    THEN LET regex_pattern == SubSeq(pattern, 7, Len(pattern)) IN
         IF re_raises(regex_pattern)
         THEN [ret |-> FALSE, raised |-> <<"RecursionError">>]
         ELSE IF re_error(regex_pattern)
         THEN [ret |-> FALSE, raised |-> None]
         ELSE [ret |-> re_match_at(regex_pattern, index_name, 1),
               raised |-> None]
    ELSE [ret |-> fnmatch(index_name, pattern), raised |-> None]

\* The value _matches_pattern returns; the policies of the evaluators hold
\* no pattern whose compilation raises.
_matches_pattern(index_name, pattern) ==
    _matches_pattern_run(index_name, pattern).ret

----------------------------------------------------------------------------
(* Policy evaluation: IndexFilterConfig *)

\* IndexFilterConfig.__init__
IndexFilterConfig(allowed, denied) ==
    [allowed_index_patterns |-> IF Falsy(allowed) THEN <<>> ELSE allowed,
     denied_index_patterns  |-> IF Falsy(denied) THEN <<>> ELSE denied]

\* Mutant: the loop keeps the last pattern that matches.
RECURSIVE first_match_last(_, _, _)
first_match_last(index_name, patterns, k) ==
    IF k > Len(patterns) THEN 0
    ELSE IF first_match_last(index_name, patterns, k + 1) # 0
         THEN first_match_last(index_name, patterns, k + 1)
    ELSE IF _matches_pattern(index_name, patterns[k]) THEN k
    ELSE 0

\* Mutant: the loop gives up after its first pattern.
first_match_head_only(index_name, patterns, k) ==
    IF k > Len(patterns) THEN 0
    ELSE IF _matches_pattern(index_name, patterns[k]) THEN k
    ELSE 0

\* The for loop over a pattern list: the index of the first pattern that
\* matches, 0 when the loop runs to its end.
RECURSIVE first_match(_, _, _)
first_match(index_name, patterns, k) ==
    IF k > Len(patterns) THEN 0
    ELSE IF _matches_pattern(index_name, patterns[k]) THEN k
    ELSE first_match(index_name, patterns, k + 1)

\* Mutant: the reason of a denial by pattern leaves the pattern out.
DeniedReason_unnamed(index_name, pattern) ==
    <<"Index \"">> \o index_name \o <<"\" matches denied pattern: ">>

DeniedReason(index_name, pattern) ==
    <<"Index \"">> \o index_name \o <<"\" matches denied pattern: ">> \o pattern

NotAllowedReason(index_name) ==
    <<"Index \"">> \o index_name \o <<"\" does not match any allowed patterns">>

\* Mutant: the allowed list is consulted before the denied list.
_check_single_index_allow_first(self, index_name) ==
    IF \E i \in 1..Len(index_name) : index_name[i] \in {"*", "?"}
    THEN <<TRUE, None>>
    ELSE IF /\ self.allowed_index_patterns # <<>>
            /\ first_match(index_name, self.allowed_index_patterns, 1) # 0
         THEN <<TRUE, None>>
    ELSE LET d == first_match(index_name, self.denied_index_patterns, 1) IN
         IF d # 0
         THEN <<FALSE, DeniedReason(index_name, self.denied_index_patterns[d])>>
         ELSE IF self.allowed_index_patterns # <<>>
              THEN <<FALSE, NotAllowedReason(index_name)>>
         ELSE <<TRUE, None>>

\* Mutant: a name with wildcards is evaluated like any other name.
_check_single_index_no_bypass(self, index_name) ==
    LET d == first_match(index_name, self.denied_index_patterns, 1) IN
    IF d # 0
    THEN <<FALSE, DeniedReason(index_name, self.denied_index_patterns[d])>>
    ELSE IF self.allowed_index_patterns # <<>>
         THEN IF first_match(index_name, self.allowed_index_patterns, 1) # 0
              THEN <<TRUE, None>>
              ELSE <<FALSE, NotAllowedReason(index_name)>>
    ELSE <<TRUE, None>>

\* Mutant: a miss of the allowed list falls through to the final allow.
_check_single_index_open(self, index_name) ==
    IF \E i \in 1..Len(index_name) : index_name[i] \in {"*", "?"}
    THEN <<TRUE, None>>
    ELSE LET d == first_match(index_name, self.denied_index_patterns, 1) IN
         IF d # 0
         THEN <<FALSE, DeniedReason(index_name, self.denied_index_patterns[d])>>
         ELSE <<TRUE, None>>

\* Mutant: the allowed list is enforced even when it is empty.
_check_single_index_closed(self, index_name) ==
    IF \E i \in 1..Len(index_name) : index_name[i] \in {"*", "?"}
    THEN <<TRUE, None>>
    ELSE LET d == first_match(index_name, self.denied_index_patterns, 1) IN
         IF d # 0
         THEN <<FALSE, DeniedReason(index_name, self.denied_index_patterns[d])>>
         ELSE IF first_match(index_name, self.allowed_index_patterns, 1) # 0
              THEN <<TRUE, None>>
              ELSE <<FALSE, NotAllowedReason(index_name)>>

_check_single_index(self, index_name) ==
    IF \E i \in 1..Len(index_name) : index_name[i] \in {"*", "?"}
    THEN <<TRUE, None>>
    ELSE LET d == first_match(index_name, self.denied_index_patterns, 1) IN
         IF d # 0
         THEN <<FALSE, DeniedReason(index_name, self.denied_index_patterns[d])>>
         ELSE IF self.allowed_index_patterns # <<>>
              THEN IF first_match(index_name, self.allowed_index_patterns, 1) # 0
                   THEN <<TRUE, None>>
                   ELSE <<FALSE, NotAllowedReason(index_name)>>
         ELSE <<TRUE, None>>

\* Mutant: the segments are not trimmed.
index_names_untrimmed(index_name) == split(index_name)

\* [name.strip() for name in index_name.split(',')]
index_names(index_name) ==
    LET parts == split(index_name) IN
    [i \in 1..Len(parts) |-> strip(parts[i])]

\* The loop of is_index_allowed over the segments from position k: the
\* decision, and the segments handed to _check_single_index on the way.
RECURSIVE check_segments(_, _, _)
check_segments(self, names, k) ==
    IF k > Len(names) THEN [ret |-> <<TRUE, None>>, seen |-> <<>>]
    ELSE LET r == _check_single_index(self, names[k]) IN
         IF ~r[1] THEN [ret |-> <<FALSE, r[2]>>, seen |-> <<names[k]>>]
         ELSE LET rest == check_segments(self, names, k + 1) IN
              [ret |-> rest.ret, seen |-> <<names[k]>> \o rest.seen]

\* Mutant: the empty expression is split and evaluated like any other.
is_index_allowed_run_no_guard(self, index_name) ==
    check_segments(self, index_names(index_name), 1)

is_index_allowed_run(self, index_name) ==
    IF Falsy(index_name) THEN [ret |-> <<TRUE, None>>, seen |-> <<>>]
    ELSE check_segments(self, index_names(index_name), 1)

is_index_allowed(self, index_name) == is_index_allowed_run(self, index_name).ret

----------------------------------------------------------------------------
(* Configuration loading: load_index_filter_config, get_index_filter_config *)

JsonWhitespace == {" ", "\t", "\n", "\r"}

RECURSIVE skip_ws(_, _)
skip_ws(s, i) ==
    IF i <= Len(s) /\ s[i] \in JsonWhitespace THEN skip_ws(s, i + 1) ELSE i

\* The position of the quote that closes a JSON string whose first
\* character is at i, 0 when there is none (no escapes in the model).
RECURSIVE json_string_end(_, _)
json_string_end(s, i) ==
    IF i > Len(s) THEN 0
    ELSE IF s[i] = "\"" THEN i
    ELSE json_string_end(s, i + 1)

JSONDecodeError == [ok |-> FALSE, value |-> <<>>]

\* json.loads recurses once for each array that opens inside another; at
\* the interpreter's recursion limit it raises RecursionError, which is no
\* JSONDecodeError.
RecursionError == [ok |-> FALSE, value |-> <<"RecursionError">>]

\* The number of arrays that open one inside the other from position i.
RECURSIVE array_depth(_, _)
array_depth(s, i) ==
    IF skip_ws(s, i) <= Len(s) /\ s[skip_ws(s, i)] = "["
    THEN 1 + array_depth(s, skip_ws(s, i) + 1)
    ELSE 0

\* The elements of a JSON array of strings from position i, after acc.
RECURSIVE json_items(_, _, _)
json_items(s, i, acc) ==
    IF i > Len(s) \/ s[i] # "\"" THEN JSONDecodeError
    ELSE LET e == json_string_end(s, i + 1) IN
         IF e = 0 THEN JSONDecodeError
         ELSE LET str == SubSeq(s, i + 1, e - 1)
                  k   == skip_ws(s, e + 1)
              IN  IF k > Len(s) THEN JSONDecodeError
                  ELSE IF s[k] = ","
                       THEN json_items(s, skip_ws(s, k + 1), Append(acc, str))
                  ELSE IF s[k] = "]" /\ skip_ws(s, k + 1) > Len(s)
                       THEN [ok |-> TRUE, value |-> Append(acc, str)]
                  ELSE JSONDecodeError

\* json.loads on a text that is an array of plain strings or malformed.
json_loads(s) ==
    LET i == skip_ws(s, 1) IN
    IF array_depth(s, 1) >= RecursionLimit THEN RecursionError
    ELSE IF i > Len(s) \/ s[i] # "[" THEN JSONDecodeError
    ELSE LET j == skip_ws(s, i + 1) IN
         IF j <= Len(s) /\ s[j] = "]"
         THEN IF skip_ws(s, j + 1) > Len(s)
              THEN [ok |-> TRUE, value |-> <<>>]
              ELSE JSONDecodeError
         ELSE json_items(s, j, <<>>)

\* [p.strip() for p in value.split(',') if p.strip()]
comma_separated(value) ==
    SelectSeq(index_names(value), LAMBDA p : p # <<>>)

\* Mutant: the value is not stripped before it is tested for '['.
env_patterns_unstripped(value, current) ==
    IF Falsy(value) THEN current
    ELSE IF startswith(value, <<"[">>)
         THEN LET parsed == json_loads(value) IN
              IF parsed.ok THEN parsed.value ELSE current
    ELSE comma_separated(value)

\* One environment value: the list it yields, `current` when the variable
\* is unset or its JSON does not parse.
env_patterns(value, current) ==
    IF Falsy(value) THEN current
    ELSE IF startswith(strip(value), <<"[">>)
         THEN LET parsed == json_loads(value) IN
              IF parsed.ok THEN parsed.value ELSE current
    ELSE comma_separated(value)

\* What is found at config_file_path: kind "section" is a document whose
\* index_security is a mapping; its two values are a list, None (null) or
\* the default [] of .get when the key is absent.  Every other kind leaves
\* the two lists empty: "missing", "unreadable" and "malformed" raise in open or in
\* yaml.safe_load, "empty" is a document that loads as None, "no_section"
\* has no index_security key, "section_none" raises in security_config.get.
FileKinds ==
    {"missing", "unreadable", "malformed", "empty", "no_section",
     "section_none", "section"}

File(kind, allowed, denied) ==
    [kind |-> kind, allowed |-> allowed, denied |-> denied]

NoFile == File("missing", <<>>, <<>>)

\* Mutant: each list falls back to its environment variable on its own.
load_index_filter_config_merged(config_file_path, file, env) ==
    LET from_file == ~Falsy(config_file_path) /\ file.kind = "section"
        allowed_file == IF from_file THEN file.allowed ELSE <<>>
        denied_file  == IF from_file THEN file.denied ELSE <<>>
    IN  IndexFilterConfig(
            IF Falsy(allowed_file)
            THEN env_patterns(env.OPENSEARCH_ALLOWED_INDEX_PATTERNS, allowed_file)
            ELSE allowed_file,
            IF Falsy(denied_file)
            THEN env_patterns(env.OPENSEARCH_DENIED_INDEX_PATTERNS, denied_file)
            ELSE denied_file)

\* Mutant: the environment is read only when no path is given.
load_index_filter_config_path_only(config_file_path, file, env) ==
    LET from_file == ~Falsy(config_file_path) /\ file.kind = "section"
        allowed_file == IF from_file THEN file.allowed ELSE <<>>
        denied_file  == IF from_file THEN file.denied ELSE <<>>
        use_env == Falsy(config_file_path)
    IN  IndexFilterConfig(
            IF use_env
            THEN env_patterns(env.OPENSEARCH_ALLOWED_INDEX_PATTERNS, allowed_file)
            ELSE allowed_file,
            IF use_env
            THEN env_patterns(env.OPENSEARCH_DENIED_INDEX_PATTERNS, denied_file)
            ELSE denied_file)

load_index_filter_config(config_file_path, file, env) ==
    LET from_file == ~Falsy(config_file_path) /\ file.kind = "section"
        allowed_file == IF from_file THEN file.allowed ELSE <<>>
        denied_file  == IF from_file THEN file.denied ELSE <<>>
        use_env == Falsy(allowed_file) /\ Falsy(denied_file)
        allowed_patterns ==
            IF use_env
            THEN env_patterns(env.OPENSEARCH_ALLOWED_INDEX_PATTERNS, allowed_file)
            ELSE allowed_file
        denied_patterns ==
            IF use_env
            THEN env_patterns(env.OPENSEARCH_DENIED_INDEX_PATTERNS, denied_file)
            ELSE denied_file
    IN  IndexFilterConfig(allowed_patterns, denied_patterns)

\* One entry of the log of a run: the function called, the index (or the
\* argument) it was given and whether it sent a request to the cluster.
Event(call, index, remote) == [call |-> call, index |-> index, remote |-> remote]

\* json.loads of an environment value ends in an exception that the except
\* clause of load_index_filter_config does not name.
env_raises(value) ==
    /\ ~Falsy(value)
    /\ startswith(strip(value), <<"[">>)
    /\ json_loads(value) = RecursionError

\* Mutant: a load does not replace a global that is already set.
load_index_filter_config_run_keep(global, config_file_path, file, env) ==
    LET from_file == ~Falsy(config_file_path) /\ file.kind = "section"
        use_env == ~from_file \/ (Falsy(file.allowed) /\ Falsy(file.denied))
        reads ==
            (IF Falsy(config_file_path) THEN <<>>
             ELSE <<Event("open", config_file_path, FALSE)>>)
            \o (IF use_env
                THEN <<Event("os.getenv", "OPENSEARCH_ALLOWED_INDEX_PATTERNS", FALSE),
                       Event("os.getenv", "OPENSEARCH_DENIED_INDEX_PATTERNS", FALSE)>>
                ELSE <<>>)
        done(loaded) ==
            [ret |-> {loaded}, raised |-> None,
             global |-> IF global = {} THEN {loaded} ELSE global,
             calls |-> Append(reads, Event("IndexFilterConfig", None, FALSE))]
    IN  IF use_env /\ (env_raises(env.OPENSEARCH_ALLOWED_INDEX_PATTERNS)
                       \/ env_raises(env.OPENSEARCH_DENIED_INDEX_PATTERNS))
        THEN [ret |-> {}, raised |-> <<"RecursionError">>, global |-> global,
              calls |-> reads]
        ELSE done(load_index_filter_config(config_file_path, file, env))

\* A whole call of load_index_filter_config: the policy it returns ({} when
\* it raises), the exception that leaves it, the global after it and what
\* it read on the way.  Both variables are read before either is parsed.
load_index_filter_config_run(global, config_file_path, file, env) ==
    LET from_file == ~Falsy(config_file_path) /\ file.kind = "section"
        use_env == ~from_file \/ (Falsy(file.allowed) /\ Falsy(file.denied))
        reads ==
            (IF Falsy(config_file_path) THEN <<>>
             ELSE <<Event("open", config_file_path, FALSE)>>)
            \o (IF use_env
                THEN <<Event("os.getenv", "OPENSEARCH_ALLOWED_INDEX_PATTERNS", FALSE),
                       Event("os.getenv", "OPENSEARCH_DENIED_INDEX_PATTERNS", FALSE)>>
                ELSE <<>>)
        done(loaded) ==
            [ret |-> {loaded}, raised |-> None, global |-> {loaded},
             calls |-> Append(reads, Event("IndexFilterConfig", None, FALSE))]
    IN  IF use_env /\ (env_raises(env.OPENSEARCH_ALLOWED_INDEX_PATTERNS)
                       \/ env_raises(env.OPENSEARCH_DENIED_INDEX_PATTERNS))
        THEN [ret |-> {}, raised |-> <<"RecursionError">>, global |-> global,
              calls |-> reads]
        ELSE done(load_index_filter_config(config_file_path, file, env))

\* Mutant: the accessor loads on every call.
get_index_filter_config_run_eager(global, env) ==
    load_index_filter_config_run(global, <<>>, NoFile, env)

\* A whole call of get_index_filter_config: a load with no path when the
\* global is None, then the global is returned.
get_index_filter_config_run(global, env) ==
    IF global = {}
    THEN load_index_filter_config_run(global, <<>>, NoFile, env)
    ELSE [ret |-> global, raised |-> None, global |-> global, calls |-> <<>>]

\* The global after get_index_filter_config.
get_index_filter_config(global, env) ==
    get_index_filter_config_run(global, env).global

PolicyOf(global) == CHOOSE p \in global : TRUE

----------------------------------------------------------------------------
(* The validation gate: validate_index_access *)

AccessDenied(reason) == <<"Index access denied: ">> \o reason

\* Mutant: a denial is not raised.
validate_index_access_silent(global, env, index_name) ==
    IF Falsy(index_name)
    THEN [global |-> global, raised |-> None, seen |-> <<>>,
          calls |-> <<>>]
    ELSE LET decided(g, reads, run) ==
                 [global |-> g, raised |-> None, seen |-> run.seen, calls |-> reads]
             loaded(got) ==
                 IF got.raised # None
                 THEN [global |-> got.global, raised |-> got.raised,
                       seen |-> <<>>, calls |-> got.calls]
                 ELSE decided(got.global, got.calls,
                              is_index_allowed_run(PolicyOf(got.global),
                                                   index_name))
         IN  loaded(get_index_filter_config_run(global, env))

\* Mutant: the evaluation removes the denied pattern it tried first.
validate_index_access_consuming(global, env, index_name) ==
    IF Falsy(index_name)
    THEN [global |-> global, raised |-> None, seen |-> <<>>,
          calls |-> <<>>]
    ELSE LET consumed(p) ==
                 [p EXCEPT !.denied_index_patterns =
                     IF @ = <<>> THEN @ ELSE Tail(@)]
             decided(g, reads, run) ==
                 [global |-> {consumed(PolicyOf(g))},
                  raised |-> IF ~run.ret[1] THEN AccessDenied(run.ret[2])
                             ELSE None,
                  seen |-> run.seen, calls |-> reads]
             loaded(got) ==
                 IF got.raised # None
                 THEN [global |-> got.global, raised |-> got.raised,
                       seen |-> <<>>, calls |-> got.calls]
                 ELSE decided(got.global, got.calls,
                              is_index_allowed_run(PolicyOf(got.global),
                                                   index_name))
         IN  loaded(get_index_filter_config_run(global, env))

\* Mutant: the empty index goes through the accessor like any other.
validate_index_access_no_guard(global, env, index_name) ==
    LET decided(g, reads, run) ==
            [global |-> g,
             raised |-> IF ~run.ret[1] THEN AccessDenied(run.ret[2])
                        ELSE None,
             seen |-> run.seen, calls |-> reads]
        loaded(got) ==
            IF got.raised # None
            THEN [global |-> got.global, raised |-> got.raised,
                  seen |-> <<>>, calls |-> got.calls]
            ELSE decided(got.global, got.calls,
                         is_index_allowed_run(PolicyOf(got.global),
                                              index_name))
    IN  loaded(get_index_filter_config_run(global, env))

\* The global after the call, the message of the exception raised (None
\* when the call returns), the segments evaluated and what the lazy load
\* read.  An exception of the lazy load leaves the call as it is.
validate_index_access(global, env, index_name) ==
    IF Falsy(index_name)
    THEN [global |-> global, raised |-> None, seen |-> <<>>,
          calls |-> <<>>]
    ELSE LET decided(g, reads, run) ==
                 [global |-> g,
                  raised |-> IF ~run.ret[1] THEN AccessDenied(run.ret[2])
                             ELSE None,
                  seen |-> run.seen, calls |-> reads]
             loaded(got) ==
                 IF got.raised # None
                 THEN [global |-> got.global, raised |-> got.raised,
                       seen |-> <<>>, calls |-> got.calls]
                 ELSE decided(got.global, got.calls,
                              is_index_allowed_run(PolicyOf(got.global),
                                                   index_name))
         IN  loaded(get_index_filter_config_run(global, env))

----------------------------------------------------------------------------
(* Tool handlers: src/src/tools/tools.py *)

\* The formatted body of a response and the text of a failure of the
\* client are one token each.
Response == "<response>"
ClientError == "<client error>"
Unsupported == "<tool is not supported for this OpenSearch version>"

\* check_tool_compatibility: get_opensearch_version asks the cluster for
\* its version with client.info() once initialize_client has succeeded, and
\* the handler raises when is_tool_compatible rejects the version.
check_tool_compatibility(client_ok, compatible) ==
    [calls  |-> <<Event("get_opensearch_version", None, client_ok)>>,
     raised |-> IF compatible THEN None ELSE <<Unsupported>>]

\* The handlers that take an index and have one data helper.  optional:
\* the access check is under `if args.index:`.
IndexTools ==
    { [name |-> "get_index_mapping_tool", helper |-> "get_index_mapping",
       optional |-> FALSE, error |-> "Error getting mapping: "],
      [name |-> "search_index_tool", helper |-> "search_index",
       optional |-> FALSE, error |-> "Error searching index: "],
      [name |-> "get_shards_tool", helper |-> "get_shards",
       optional |-> FALSE, error |-> "Error getting shards information: "],
      [name |-> "get_cluster_state_tool", helper |-> "get_cluster_state",
       optional |-> TRUE, error |-> "Error getting cluster state: "],
      [name |-> "get_segments_tool", helper |-> "get_segments",
       optional |-> TRUE, error |-> "Error getting segment information: "],
      [name |-> "get_index_info_tool", helper |-> "get_index_info",
       optional |-> FALSE, error |-> "Error getting index information: "],
      [name |-> "get_index_stats_tool", helper |-> "get_index_stats",
       optional |-> FALSE, error |-> "Error getting index statistics: "] }

Tool(name) == CHOOSE t \in IndexTools : t.name = name

\* str(args.index) inside an f-string.
Shown(index) == IF index = None THEN <<"N", "o", "n", "e">> ELSE index

\* The text of a successful run (args.metric is not given; the rows or the
\* JSON of the response are the token Response).
success_text(name, index) ==
    CASE name = "get_index_mapping_tool" ->
            <<"Mapping for ">> \o Shown(index) \o <<":\n", Response>>
      [] name = "search_index_tool" ->
            <<"Search results from ">> \o Shown(index) \o <<":\n", Response>>
      [] name = "get_shards_tool" ->
            <<"index | shard | prirep | state | docs | store | ip | node\n",
              Response>>
      [] name = "get_cluster_state_tool" ->
            <<"Cluster state information">>
            \o (IF Falsy(index) THEN <<>>
                ELSE <<", filtered by index: ">> \o index)
            \o <<":\n", Response>>
      [] name = "get_segments_tool" ->
            <<"Segment information">>
            \o (IF Falsy(index) THEN <<" for all indices">>
                ELSE <<" for index: ">> \o index)
            \o <<":\n", Response>>
      [] name = "get_index_info_tool" ->
            <<"Detailed information for index: ">> \o Shown(index)
            \o <<":\n", Response>>
      [] name = "get_index_stats_tool" ->
            <<"Statistics for index: ">> \o Shown(index) \o <<":\n", Response>>

\* The data helper: it raises when the client cannot be built or the
\* request fails, and the handler's except clause turns that into a text.
helper_text(tool, index, client_ok, remote_ok) ==
    IF client_ok /\ remote_ok
    THEN success_text(tool.name, index)
    ELSE <<tool.error, ClientError>>

Outcome(events, text, global, seen) ==
    [calls |-> events, text |-> text, global |-> global, seen |-> seen]

\* Mutant: the data helper runs before the access check.
index_tool_late_check(tool, global, env, index, client_ok, compatible, remote_ok) ==
    LET checked == ~(tool.optional /\ Falsy(index))
        checking(fetched) ==
            Append(fetched, Event("validate_index_access", index, FALSE))
        run(compat, fetched, v) ==
            IF compat.raised # None
            THEN Outcome(compat.calls, <<tool.error>> \o compat.raised,
                         global, <<>>)
            ELSE IF ~(client_ok /\ remote_ok) \/ ~checked
            THEN Outcome(fetched,
                         helper_text(tool, index, client_ok, remote_ok),
                         global, <<>>)
            ELSE IF v.raised # None
            THEN Outcome(checking(fetched), <<tool.error>> \o v.raised,
                         v.global, v.seen)
            ELSE Outcome(checking(fetched),
                         helper_text(tool, index, client_ok, remote_ok),
                         v.global, v.seen)
        fetch(compat) ==
            run(compat,
                Append(compat.calls, Event(tool.helper, index, client_ok)),
                validate_index_access(global, env, index))
    IN  fetch(check_tool_compatibility(client_ok, compatible))

\* get_index_mapping_tool, search_index_tool, get_shards_tool,
\* get_cluster_state_tool, get_segments_tool, get_index_info_tool and
\* get_index_stats_tool: compatibility, access check, data helper, each
\* exception turned into the returned text.
index_tool(tool, global, env, index, client_ok, compatible, remote_ok) ==
    LET checked == ~(tool.optional /\ Falsy(index))
        run(compat, validated, v) ==
            IF compat.raised # None
            THEN Outcome(compat.calls, <<tool.error>> \o compat.raised,
                         global, <<>>)
            ELSE IF v.raised # None
            THEN Outcome(validated, <<tool.error>> \o v.raised,
                         v.global, v.seen)
            ELSE Outcome(Append(validated,
                                Event(tool.helper, index, client_ok)),
                         helper_text(tool, index, client_ok, remote_ok),
                         v.global, v.seen)
        check(compat) ==
            IF checked
            THEN run(compat,
                     Append(compat.calls,
                            Event("validate_index_access", index, FALSE)),
                     validate_index_access(global, env, index))
            ELSE run(compat, compat.calls,
                     [global |-> global, raised |-> None, seen |-> <<>>])
    IN  check(check_tool_compatibility(client_ok, compatible))

ListError == "Error listing indices: "

\* Mutant: the listing is not narrowed to the allowed patterns.
list_indices_tool_unnarrowed(global, env, index, client_ok, compatible, remote_ok, include_detail) ==
    LET one(compat, validated, v) ==
            IF v.raised # None
            THEN Outcome(validated, <<ListError>> \o v.raised,
                         v.global, v.seen)
            ELSE Outcome(Append(validated,
                                Event("get_index", index, client_ok)),
                         IF client_ok /\ remote_ok
                         THEN <<"Index information for ">> \o index
                              \o <<":\n", Response>>
                         ELSE <<ListError, ClientError>>,
                         v.global, v.seen)
        listed(filter_config) == index
        every(compat, g) ==
            Outcome(Append(compat.calls,
                           Event("list_indices", listed(PolicyOf(g)),
                                 client_ok)),
                    IF client_ok /\ remote_ok
                    THEN IF include_detail
                         THEN <<"All indices information:\n", Response>>
                         ELSE <<"Indices:\n", Response>>
                    ELSE <<ListError, ClientError>>,
                    g, <<>>)
        listing(compat, got) ==
            IF got.raised # None
            THEN Outcome(compat.calls, <<ListError>> \o got.raised,
                         got.global, <<>>)
            ELSE every(compat, got.global)
        run(compat) ==
            IF compat.raised # None
            THEN Outcome(compat.calls, <<ListError>> \o compat.raised,
                         global, <<>>)
            ELSE IF ~Falsy(index)
            THEN one(compat,
                     Append(compat.calls,
                            Event("validate_index_access", index, FALSE)),
                     validate_index_access(global, env, index))
            ELSE listing(compat, get_index_filter_config_run(global, env))
    IN  run(check_tool_compatibility(client_ok, compatible))

\* list_indices_tool: with an index it is checked and get_index fetches
\* it; without one the listing is narrowed to the allowed patterns of the
\* policy the accessor returns, and an exception of the accessor is turned
\* into the returned text like any other.
list_indices_tool(global, env, index, client_ok, compatible, remote_ok, include_detail) ==
    LET one(compat, validated, v) ==
            IF v.raised # None
            THEN Outcome(validated, <<ListError>> \o v.raised,
                         v.global, v.seen)
            ELSE Outcome(Append(validated,
                                Event("get_index", index, client_ok)),
                         IF client_ok /\ remote_ok
                         THEN <<"Index information for ">> \o index
                              \o <<":\n", Response>>
                         ELSE <<ListError, ClientError>>,
                         v.global, v.seen)
        listed(filter_config) ==
            IF filter_config.allowed_index_patterns # <<>>
            THEN join(filter_config.allowed_index_patterns)
            ELSE index
        every(compat, g) ==
            Outcome(Append(compat.calls,
                           Event("list_indices", listed(PolicyOf(g)),
                                 client_ok)),
                    IF client_ok /\ remote_ok
                    THEN IF include_detail
                         THEN <<"All indices information:\n", Response>>
                         ELSE <<"Indices:\n", Response>>
                    ELSE <<ListError, ClientError>>,
                    g, <<>>)
        listing(compat, got) ==
            IF got.raised # None
            THEN Outcome(compat.calls, <<ListError>> \o got.raised,
                         got.global, <<>>)
            ELSE every(compat, got.global)
        run(compat) ==
            IF compat.raised # None
            THEN Outcome(compat.calls, <<ListError>> \o compat.raised,
                         global, <<>>)
            ELSE IF ~Falsy(index)
            THEN one(compat,
                     Append(compat.calls,
                            Event("validate_index_access", index, FALSE)),
                     validate_index_access(global, env, index))
            ELSE listing(compat, get_index_filter_config_run(global, env))
    IN  run(check_tool_compatibility(client_ok, compatible))

----------------------------------------------------------------------------
(* Bounded inputs *)

\* The longest index expression, and the most patterns a policy holds over
\* its two lists.
MaxLen == 3
MaxPatterns == 3

SeqsUpTo(S, n) == UNION {[1..k -> S] : k \in 0..n}

\* Characters of index expressions: a letter, the two wildcards, the
\* separator and a blank.
ExprAlphabet == {"a", "*", "?", ",", " "}

Exprs == SeqsUpTo(ExprAlphabet, MaxLen)

\* What is_index_allowed hands to _check_single_index: trimmed, comma-free.
Names == {s \in Exprs : strip(s) = s /\ \A i \in 1..Len(s) : s[i] # ","}

\* A literal name, a prefix glob, the catch-all glob and a regex that is not
\* end-anchored.
PatternPool ==
    { <<"a">>, <<"a", "*">>, <<"*">>, RegexTag \o <<"a", "a">> }

PatternLists ==
    {l \in SeqsUpTo(PatternPool, MaxPatterns) :
        \A i, j \in 1..Len(l) : l[i] = l[j] => i = j}

Policies ==
    {IndexFilterConfig(p[1], p[2]) :
        p \in {q \in PatternLists \X PatternLists :
                  Len(q[1]) + Len(q[2]) <= MaxPatterns}}

\* Values of the two environment variables: unset, a comma-separated list
\* with a blank and an empty segment, a JSON array, a malformed JSON array.
EnvValues ==
    { <<>>,
      <<"a", ",", " ", "*", ",">>,
      <<"[", "\"", "a", "a", "\"", "]">>,
      <<"[", "a">> }

Environs ==
    [OPENSEARCH_ALLOWED_INDEX_PATTERNS : EnvValues,
     OPENSEARCH_DENIED_INDEX_PATTERNS : EnvValues]

NoEnviron ==
    [OPENSEARCH_ALLOWED_INDEX_PATTERNS |-> <<>>,
     OPENSEARCH_DENIED_INDEX_PATTERNS |-> <<>>]

----------------------------------------------------------------------------
(* State *)

\* The IndexFilterConfig the global refers to.
Installed == CHOOSE p \in _index_filter_config : TRUE

\* result is the last call and its outcome: at = "called" while the call is
\* pending, "returned" once it has run; ret is the policy a loader or the
\* accessor returned.
Call(op, arg) ==
    [op |-> op, arg |-> arg, at |-> "called",
     decision |-> <<TRUE, None>>, raised |-> None, text |-> None, ret |-> {}]

----------------------------------------------------------------------------
(* Evaluation of an IndexFilterConfig instance on every input *)

\* A policy is installed and any of the three entry points is called, or
\* the global is still None and the gate is called under some environment.
InitEval ==
    /\ \/ /\ _index_filter_config \in {{p} : p \in Policies}
          /\ environ = NoEnviron
          /\ result \in
                {Call("is_index_allowed", e) : e \in Exprs \cup {None}}
                \cup {Call("_check_single_index", n) : n \in Names}
                \cup {Call("validate_index_access", e) : e \in Exprs \cup {None}}
       \/ /\ _index_filter_config = {}
          /\ environ \in Environs
          /\ result \in
                {Call("validate_index_access", e) : e \in Exprs \cup {None}}
    /\ evaluated = <<>>
    /\ calls = <<>>
    /\ threads = <<>>

IsIndexAllowed ==
    /\ result.op = "is_index_allowed" /\ result.at = "called"
    /\ LET run == is_index_allowed_run(Installed, result.arg) IN
       /\ result' = [result EXCEPT !.at = "returned", !.decision = run.ret]
       /\ evaluated' = run.seen
    /\ UNCHANGED <<_index_filter_config, environ, calls, threads>>

CheckSingleIndex ==
    /\ result.op = "_check_single_index" /\ result.at = "called"
    /\ result' = [result EXCEPT
                    !.at = "returned",
                    !.decision = _check_single_index(Installed, result.arg)]
    /\ evaluated' = <<result.arg>>
    /\ UNCHANGED <<_index_filter_config, environ, calls, threads>>

ValidateIndexAccess ==
    /\ result.op = "validate_index_access" /\ result.at = "called"
    /\ LET return(v) ==
               /\ _index_filter_config' = v.global
               /\ result' = [result EXCEPT !.at = "returned",
                                            !.raised = v.raised]
               /\ evaluated' = v.seen
               /\ calls' = v.calls
       IN  return(validate_index_access(_index_filter_config, environ,
                                        result.arg))
    /\ UNCHANGED <<environ, threads>>

NextEval == IsIndexAllowed \/ CheckSingleIndex \/ ValidateIndexAccess

SpecEval == InitEval /\ [][NextEval]_vars

----------------------------------------------------------------------------
(* The tool handlers on every input *)

\* Policies a deployment installs: none, a deny list, an allow list, both.
ToolPolicies ==
    { IndexFilterConfig(<<>>, <<>>),
      IndexFilterConfig(<<>>, <<<<"a">>>>),
      IndexFilterConfig(<<<<"a", "*">>, RegexTag \o <<"a", "a">>>>, <<>>),
      IndexFilterConfig(<<<<"a", "*">>>>, <<<<"a", "a">>, <<"a">>>>) }

\* args.index: absent, empty, literal names, a list with a blank, a
\* wildcard expression.
ToolIndexes ==
    { None, <<>>, <<"a">>, <<"a", "a">>, <<"b">>,
      <<"b", ",", " ", "a">>, <<"a", "*">> }

\* The arguments of a handler run and what the cluster does with it.
ToolArgs ==
    [index : ToolIndexes, client_ok : BOOLEAN, compatible : BOOLEAN,
     remote_ok : BOOLEAN, include_detail : BOOLEAN]

ToolNames == {t.name : t \in IndexTools} \cup {"list_indices_tool"}

InitTools ==
    /\ \/ /\ _index_filter_config \in {{p} : p \in ToolPolicies}
          /\ environ = NoEnviron
       \/ /\ _index_filter_config = {}
          /\ environ \in Environs
    /\ result \in
        {Call(t.name, a) : t \in IndexTools,
                           a \in {x \in ToolArgs : ~x.include_detail}}
        \cup {Call("list_indices_tool", a) : a \in ToolArgs}
    /\ evaluated = <<>>
    /\ calls = <<>>
    /\ threads = <<>>

\* The handler of result.op runs to its return.
Handle(name) ==
    /\ result.op = name /\ result.at = "called"
    /\ LET a == result.arg
           return(out) ==
               /\ _index_filter_config' = out.global
               /\ result' = [result EXCEPT !.at = "returned",
                                            !.text = out.text]
               /\ evaluated' = out.seen
               /\ calls' = out.calls
       IN  IF name = "list_indices_tool"
           THEN return(list_indices_tool(_index_filter_config, environ,
                                         a.index, a.client_ok, a.compatible,
                                         a.remote_ok, a.include_detail))
           ELSE return(index_tool(Tool(name), _index_filter_config, environ,
                                  a.index, a.client_ok, a.compatible,
                                  a.remote_ok))
    /\ UNCHANGED <<environ, threads>>

ListIndicesTool == Handle("list_indices_tool")
GetIndexMappingTool == Handle("get_index_mapping_tool")
SearchIndexTool == Handle("search_index_tool")
GetShardsTool == Handle("get_shards_tool")
GetClusterStateTool == Handle("get_cluster_state_tool")
GetSegmentsTool == Handle("get_segments_tool")
GetIndexInfoTool == Handle("get_index_info_tool")
GetIndexStatsTool == Handle("get_index_stats_tool")

NextTools ==
    \/ ListIndicesTool
    \/ GetIndexMappingTool
    \/ SearchIndexTool
    \/ GetShardsTool
    \/ GetClusterStateTool
    \/ GetSegmentsTool
    \/ GetIndexInfoTool
    \/ GetIndexStatsTool

SpecTools == InitTools /\ [][NextTools]_vars

----------------------------------------------------------------------------
(* load_index_filter_config on every file and environment *)

\* json.loads recursing to the limit on arrays that only open.
DeepArray == [i \in 1..RecursionLimit |-> "["]

\* Values of an environment variable: those of EnvValues, a blank, a JSON
\* array after a blank, a JSON array of two strings and the deep array.
LoadEnvValues ==
    EnvValues \cup
    { <<" ">>,
      <<" ", "[", "\"", "a", "\"", "]">>,
      <<"[", "\"", "a", "\"", ",", " ", "\"", "*", "\"", "]">>,
      DeepArray }

LoadEnvirons ==
    [OPENSEARCH_ALLOWED_INDEX_PATTERNS : LoadEnvValues,
     OPENSEARCH_DENIED_INDEX_PATTERNS : LoadEnvValues]

\* A value of index_security: the key is absent or its list is empty, it
\* is null, it is a list.
FileLists == << <<>>, None, <<<<"a">>>>, <<<<"a", "*">>, <<"a">>>> >>

LoadArg(config_file_path, file) ==
    [config_file_path |-> config_file_path, file |-> file]

\* The global is None or holds the policy of an earlier load;
\* config_file_path is the default '' or the path of a file.
InitLoad ==
    /\ _index_filter_config \in {{}, {IndexFilterConfig(<<>>, <<<<"*">>>>)}}
    /\ environ \in LoadEnvirons
    /\ \/ result = Call("load_index_filter_config", LoadArg(<<>>, NoFile))
       \/ \E k \in FileKinds \ {"section"} :
             result = Call("load_index_filter_config",
                           LoadArg(<<"f">>, File(k, <<>>, <<>>)))
       \/ \E i, j \in 1..Len(FileLists) :
             result = Call("load_index_filter_config",
                           LoadArg(<<"f">>,
                                   File("section", FileLists[i], FileLists[j])))
    /\ evaluated = <<>>
    /\ calls = <<>>
    /\ threads = <<>>

LoadIndexFilterConfig ==
    /\ result.op = "load_index_filter_config" /\ result.at = "called"
    /\ LET return(run) ==
               /\ _index_filter_config' = run.global
               /\ result' = [result EXCEPT !.at = "returned",
                                            !.raised = run.raised,
                                            !.ret = run.ret]
               /\ calls' = run.calls
       IN  return(load_index_filter_config_run(
                      _index_filter_config, result.arg.config_file_path,
                      result.arg.file, environ))
    /\ UNCHANGED <<environ, evaluated, threads>>

NextLoad == LoadIndexFilterConfig

SpecLoad == InitLoad /\ [][NextLoad]_vars

----------------------------------------------------------------------------
(* Loads, accessor calls and checks one after the other *)

\* The environment of the process: unset, a denied name, an allowed JSON
\* array, an array json.loads cannot descend.
ReloadEnvirons ==
    { NoEnviron,
      [NoEnviron EXCEPT !.OPENSEARCH_DENIED_INDEX_PATTERNS = <<"a">>],
      [NoEnviron EXCEPT !.OPENSEARCH_ALLOWED_INDEX_PATTERNS =
                            <<"[", "\"", "a", "a", "\"", "]">>],
      [NoEnviron EXCEPT !.OPENSEARCH_ALLOWED_INDEX_PATTERNS = DeepArray] }

\* Explicit loads: with no path, with a file that allows a*, with a file
\* that denies a and aa, with a file that does not parse.
ReloadArgs ==
    { LoadArg(<<>>, NoFile),
      LoadArg(<<"f">>, File("section", <<<<"a", "*">>>>, <<>>)),
      LoadArg(<<"g">>, File("section", <<>>, <<<<"a">>, <<"a", "a">>>>)),
      LoadArg(<<"h">>, File("malformed", <<>>, <<>>)) }

ReloadIndexes == { <<>>, <<"a">>, <<"a", "a">>, <<"b", ",", "a">> }

\* The module has been imported: the global is None.
InitReload ==
    /\ _index_filter_config = {}
    /\ environ \in ReloadEnvirons
    /\ result = [Call("import", None) EXCEPT !.at = "returned"]
    /\ evaluated = <<>>
    /\ calls = <<>>
    /\ threads = <<>>

\* The environment of the process changes between two calls.
SetEnviron ==
    \E e \in ReloadEnvirons :
        /\ environ' = e
        /\ result' = [Call("os.environ", e) EXCEPT !.at = "returned"]
        /\ evaluated' = <<>>
        /\ calls' = <<>>
        /\ UNCHANGED <<_index_filter_config, threads>>

Load ==
    \E a \in ReloadArgs :
        LET return(run) ==
                /\ _index_filter_config' = run.global
                /\ result' = [Call("load_index_filter_config", a) EXCEPT
                                 !.at = "returned", !.raised = run.raised,
                                 !.ret = run.ret]
                /\ calls' = run.calls
        IN  /\ return(load_index_filter_config_run(
                          _index_filter_config, a.config_file_path, a.file,
                          environ))
            /\ evaluated' = <<>>
            /\ UNCHANGED <<environ, threads>>

GetIndexFilterConfig ==
    LET return(run) ==
            /\ _index_filter_config' = run.global
            /\ result' = [Call("get_index_filter_config", None) EXCEPT
                             !.at = "returned", !.raised = run.raised,
                             !.ret = run.ret]
            /\ calls' = run.calls
    IN  /\ return(get_index_filter_config_run(_index_filter_config, environ))
        /\ evaluated' = <<>>
        /\ UNCHANGED <<environ, threads>>

Validate ==
    \E index \in ReloadIndexes :
        LET return(v) ==
                /\ _index_filter_config' = v.global
                /\ result' = [Call("validate_index_access", index) EXCEPT
                                 !.at = "returned", !.raised = v.raised]
                /\ evaluated' = v.seen
                /\ calls' = v.calls
        IN  /\ return(validate_index_access(_index_filter_config, environ,
                                            index))
            /\ UNCHANGED <<environ, threads>>

NextReload == SetEnviron \/ Load \/ GetIndexFilterConfig \/ Validate

SpecReload == InitReload /\ [][NextReload]_vars

----------------------------------------------------------------------------
(* Threads that call into the module at the same time *)

\* The module takes no lock: a thread can be preempted between any two
\* reads or writes of the global and of os.environ, which are the steps
\* below.  The values of the environment here all parse.
NThreads == 2

Tids == 1..NThreads

ThreadEnvirons ==
    { NoEnviron,
      [NoEnviron EXCEPT !.OPENSEARCH_DENIED_INDEX_PATTERNS = <<"a">>] }

\* The frame of a call: its arguments, where it is (pc) and its locals.
\* ret is what load_index_filter_config returned, config what
\* get_index_filter_config returned, k the segment is_index_allowed is at.
Thread(op, index, config_file_path, file) ==
    [op |-> op, index |-> index, config_file_path |-> config_file_path,
     file |-> file,
     pc |-> IF op = "load_index_filter_config" THEN "open" ELSE "is_none",
     allowed_patterns |-> <<>>, denied_patterns |-> <<>>,
     allowed_env |-> <<>>, constructed |-> FALSE,
     ret |-> {}, config |-> {}, k |-> 0, raised |-> None]

\* The accessor, a check of two names, a load from a file that denies b
\* and a load with no path.
ThreadCalls ==
    { Thread("get_index_filter_config", None, <<>>, NoFile),
      Thread("validate_index_access", <<"b", ",", "a">>, <<>>, NoFile),
      Thread("load_index_filter_config", None, <<"f">>,
             File("section", <<>>, <<<<"b">>>>)),
      Thread("load_index_filter_config", None, <<>>, NoFile) }

\* The global is None or a policy that denies a; result.ret keeps it.
InitThreads ==
    /\ _index_filter_config \in {{}, {IndexFilterConfig(<<>>, <<<<"a">>>>)}}
    /\ environ \in ThreadEnvirons
    /\ threads \in [Tids -> ThreadCalls]
    /\ result = [Call("threading", None) EXCEPT
                   !.at = "returned", !.ret = _index_filter_config]
    /\ evaluated = <<>>
    /\ calls = <<>>

\* Another part of the process changes the environment.
ChangeEnviron ==
    /\ environ' \in ThreadEnvirons \ {environ}
    /\ UNCHANGED <<_index_filter_config, result, evaluated, calls, threads>>

\* load_index_filter_config, lines 131-145: the file, when a path is given.
Open(t) ==
    /\ threads[t].pc = "open"
    /\ LET from_file == /\ ~Falsy(threads[t].config_file_path)
                        /\ threads[t].file.kind = "section"
           allowed == IF from_file THEN threads[t].file.allowed ELSE <<>>
           denied  == IF from_file THEN threads[t].file.denied ELSE <<>>
       IN  threads' = [threads EXCEPT
               ![t].allowed_patterns = allowed,
               ![t].denied_patterns = denied,
               ![t].pc = IF Falsy(allowed) /\ Falsy(denied)
                         THEN "getenv_allowed" ELSE "store"]
    /\ UNCHANGED <<_index_filter_config, environ, result, evaluated, calls>>

\* get_index_filter_config, line 185: the test of the global.
IsNone(t) ==
    /\ threads[t].pc = "is_none"
    /\ threads' = [threads EXCEPT
           ![t].pc = IF _index_filter_config = {} THEN "getenv_allowed"
                     ELSE "return_global"]
    /\ UNCHANGED <<_index_filter_config, environ, result, evaluated, calls>>

\* Line 146.
GetenvAllowed(t) ==
    /\ threads[t].pc = "getenv_allowed"
    /\ threads' = [threads EXCEPT
           ![t].allowed_env = environ.OPENSEARCH_ALLOWED_INDEX_PATTERNS,
           ![t].pc = "getenv_denied"]
    /\ UNCHANGED <<_index_filter_config, environ, result, evaluated, calls>>

\* Lines 147-169: the second read, then both values are parsed.
GetenvDenied(t) ==
    /\ threads[t].pc = "getenv_denied"
    /\ threads' = [threads EXCEPT
           ![t].allowed_patterns =
               env_patterns(threads[t].allowed_env, @),
           ![t].denied_patterns =
               env_patterns(environ.OPENSEARCH_DENIED_INDEX_PATTERNS, @),
           ![t].pc = "store"]
    /\ UNCHANGED <<_index_filter_config, environ, result, evaluated, calls>>

\* Lines 171-173: the policy is constructed, then assigned to the global.
Store(t) ==
    /\ threads[t].pc = "store"
    /\ _index_filter_config' =
          {IndexFilterConfig(threads[t].allowed_patterns,
                             threads[t].denied_patterns)}
    /\ threads' = [threads EXCEPT ![t].constructed = TRUE,
                                  ![t].pc = "load_return"]
    /\ UNCHANGED <<environ, result, evaluated, calls>>

\* Line 175: return _index_filter_config reads the global again.
LoadReturn(t) ==
    /\ threads[t].pc = "load_return"
    /\ threads' = [threads EXCEPT
           ![t].ret = _index_filter_config,
           ![t].pc = IF threads[t].op = "load_index_filter_config"
                     THEN "done" ELSE "assign"]
    /\ UNCHANGED <<_index_filter_config, environ, result, evaluated, calls>>

\* Line 186: the accessor assigns what the load returned.
Assign(t) ==
    /\ threads[t].pc = "assign"
    /\ _index_filter_config' = threads[t].ret
    /\ threads' = [threads EXCEPT ![t].pc = "return_global"]
    /\ UNCHANGED <<environ, result, evaluated, calls>>

\* Line 187, and line 202 for validate_index_access.
ReturnGlobal(t) ==
    /\ threads[t].pc = "return_global"
    /\ threads' = [threads EXCEPT
           ![t].config = _index_filter_config,
           ![t].k = 1,
           ![t].pc = IF threads[t].op = "get_index_filter_config"
                     THEN "done" ELSE "segment"]
    /\ UNCHANGED <<_index_filter_config, environ, result, evaluated, calls>>

\* Mutant: each segment is decided by the policy the global holds then.
Segment_refetch(t) ==
    /\ threads[t].pc = "segment"
    /\ LET names == index_names(threads[t].index)
           decide(r) ==
               threads' = [threads EXCEPT
                   ![t].raised = IF r[1] THEN None ELSE AccessDenied(r[2]),
                   ![t].k = IF r[1] /\ @ < Len(names) THEN @ + 1 ELSE @,
                   ![t].pc = IF r[1] /\ threads[t].k < Len(names)
                             THEN "segment" ELSE "done"]
       IN  decide(_check_single_index(PolicyOf(_index_filter_config),
                                      names[threads[t].k]))
    /\ UNCHANGED <<_index_filter_config, environ, result, evaluated, calls>>

\* One turn of the loop of is_index_allowed (lines 47-52) on the policy the
\* thread holds, and the raise of line 206 when the segment is denied.
Segment(t) ==
    /\ threads[t].pc = "segment"
    /\ LET names == index_names(threads[t].index)
           decide(r) ==
               threads' = [threads EXCEPT
                   ![t].raised = IF r[1] THEN None ELSE AccessDenied(r[2]),
                   ![t].k = IF r[1] /\ @ < Len(names) THEN @ + 1 ELSE @,
                   ![t].pc = IF r[1] /\ threads[t].k < Len(names)
                             THEN "segment" ELSE "done"]
       IN  decide(_check_single_index(PolicyOf(threads[t].config),
                                      names[threads[t].k]))
    /\ UNCHANGED <<_index_filter_config, environ, result, evaluated, calls>>

NextThreads ==
    \/ ChangeEnviron
    \/ \E t \in Tids :
          \/ Open(t)
          \/ IsNone(t)
          \/ GetenvAllowed(t)
          \/ GetenvDenied(t)
          \/ Store(t)
          \/ LoadReturn(t)
          \/ Assign(t)
          \/ ReturnGlobal(t)
          \/ Segment(t)

SpecThreads == InitThreads /\ [][NextThreads]_vars

----------------------------------------------------------------------------
(* _matches_pattern on every name and pattern *)

\* Characters of index names: a letter in both cases and a newline.
MatchNames == SeqsUpTo({"a", "A", "\n"}, MaxLen)

\* Glob patterns over the letters and the two wildcards, and regex patterns
\* over a letter, '.', '*', the two anchors and an opening parenthesis.
MatchPatterns ==
    SeqsUpTo({"a", "A", "*", "?"}, MaxLen)
    \cup {RegexTag \o r :
            r \in SeqsUpTo({"a", ".", "*", "^", "$", "("}, MaxLen)}

MatchArg(index_name, pattern) ==
    [index_name |-> index_name, pattern |-> pattern]

\* Pattern lists that open with a regex that does not compile.
BrokenLists ==
    { <<>>,
      <<RegexTag \o <<"*">>>>,
      <<RegexTag \o <<"*">>, <<"a">>>>,
      <<RegexTag \o <<"(">>, RegexTag \o <<"a">>>> }

\* The matcher is called on a name and a pattern, or a name is evaluated
\* under a policy whose lists open with a regex that does not compile.
InitMatch ==
    /\ \/ /\ _index_filter_config = {IndexFilterConfig(<<>>, <<>>)}
          /\ result \in {Call("_matches_pattern", MatchArg(n, p)) :
                            n \in MatchNames, p \in MatchPatterns}
       \/ /\ _index_filter_config \in
                {{IndexFilterConfig(a, d)} : a \in BrokenLists, d \in BrokenLists}
          /\ result \in {Call("_check_single_index", n) :
                            n \in {<<"a">>, <<"a", "a">>, <<"A">>}}
    /\ environ = NoEnviron
    /\ evaluated = <<>>
    /\ calls = <<>>
    /\ threads = <<>>

\* ret is the value the matcher returns.
MatchesPattern ==
    /\ result.op = "_matches_pattern" /\ result.at = "called"
    /\ LET return(run) ==
               result' = [result EXCEPT !.at = "returned",
                                        !.ret = run.ret,
                                        !.raised = run.raised]
       IN  return(_matches_pattern_run(result.arg.index_name,
                                       result.arg.pattern))
    /\ UNCHANGED <<_index_filter_config, environ, evaluated, calls, threads>>

NextMatch == MatchesPattern \/ CheckSingleIndex

SpecMatch == InitMatch /\ [][NextMatch]_vars

----------------------------------------------------------------------------
(* Vocabulary of the properties *)

Returned(op) == result.op = op /\ result.at = "returned"

HasWildcard(n) == \E i \in 1..Len(n) : n[i] \in {"*", "?"}

HasComma(e) == \E i \in 1..Len(e) : e[i] = ","

\* n matches at least one pattern of the list.
MatchesSome(n, patterns) ==
    \E k \in 1..Len(patterns) : _matches_pattern(n, patterns[k])

\* The last call evaluated one index name: _check_single_index, or
\* is_index_allowed on a str that is its own only segment.
EvaluatedName ==
    \/ Returned("_check_single_index")
    \/ /\ Returned("is_index_allowed")
       /\ result.arg # None
       /\ ~HasComma(result.arg)
       /\ strip(result.arg) = result.arg

Literal(n) == n # <<>> /\ ~HasWildcard(n)

Allowed == result.decision[1]

----------------------------------------------------------------------------
(* Properties of the evaluation *)

\* C1 as stated: every index name that matches a denied pattern is denied.
C1_DenyPrecedenceEveryName ==
    (EvaluatedName /\ MatchesSome(result.arg, Installed.denied_index_patterns))
        => ~Allowed

\* C1: a non-empty index name with neither '*' nor '?' that matches at
\* least one denied pattern is denied, also when it matches an allowed
\* pattern.
C1_DenyPrecedence ==
    (/\ EvaluatedName
     /\ Literal(result.arg)
     /\ MatchesSome(result.arg, Installed.denied_index_patterns))
        => ~Allowed

C1_Witness ==
    /\ EvaluatedName
    /\ Literal(result.arg)
    /\ MatchesSome(result.arg, Installed.denied_index_patterns)
    /\ MatchesSome(result.arg, Installed.allowed_index_patterns)
    /\ ~Allowed

\* C2: an index name that contains '*' or '?' is allowed with no reason
\* under every policy.
C2_DeferredValidation ==
    (EvaluatedName /\ HasWildcard(result.arg))
        => result.decision = <<TRUE, None>>

C2_Witness ==
    /\ EvaluatedName
    /\ HasWildcard(result.arg)
    /\ MatchesSome(result.arg, Installed.denied_index_patterns)
    /\ Installed.allowed_index_patterns # <<>>
    /\ ~MatchesSome(result.arg, Installed.allowed_index_patterns)
    /\ result.decision = <<TRUE, None>>

\* C3 as stated: every index name that matches no entry of a non-empty
\* allowed list is denied.
C3_AllowListMissEveryName ==
    (/\ EvaluatedName
     /\ Installed.allowed_index_patterns # <<>>
     /\ ~MatchesSome(result.arg, Installed.allowed_index_patterns))
        => ~Allowed

\* C3: a non-empty index name with neither '*' nor '?' that matches no
\* entry of a non-empty allowed list is denied.
C3_AllowListMiss ==
    (/\ EvaluatedName
     /\ Literal(result.arg)
     /\ Installed.allowed_index_patterns # <<>>
     /\ ~MatchesSome(result.arg, Installed.allowed_index_patterns))
        => ~Allowed

C3_Witness ==
    /\ EvaluatedName
    /\ Literal(result.arg)
    /\ Installed.allowed_index_patterns # <<>>
    /\ ~MatchesSome(result.arg, Installed.allowed_index_patterns)
    /\ ~MatchesSome(result.arg, Installed.denied_index_patterns)
    /\ result.decision = <<FALSE, NotAllowedReason(result.arg)>>

\* C4: with both lists empty, every index name and every comma-separated
\* expression is allowed with reason None.
C4_AllowAllDefault ==
    (/\ Returned("is_index_allowed") \/ Returned("_check_single_index")
     /\ Installed.denied_index_patterns = <<>>
     /\ Installed.allowed_index_patterns = <<>>)
        => result.decision = <<TRUE, None>>

C4_Witness ==
    /\ Returned("is_index_allowed")
    /\ Installed.denied_index_patterns = <<>>
    /\ Installed.allowed_index_patterns = <<>>
    /\ result.arg # None
    /\ HasComma(result.arg)
    /\ Len(evaluated) >= 2
    /\ result.decision = <<TRUE, None>>

\* C5: a non-empty index name with neither '*' nor '?' is denied exactly
\* when it matches some denied pattern or the allowed list is non-empty and
\* it matches no allowed pattern; otherwise it is allowed with reason None.
C5_CompleteDecision ==
    (EvaluatedName /\ Literal(result.arg)) =>
        LET deny ==
                \/ MatchesSome(result.arg, Installed.denied_index_patterns)
                \/ /\ Installed.allowed_index_patterns # <<>>
                   /\ ~MatchesSome(result.arg, Installed.allowed_index_patterns)
        IN  /\ Allowed <=> ~deny
            /\ Allowed => result.decision[2] = None

C5_Witness ==
    /\ EvaluatedName
    /\ Literal(result.arg)
    /\ Installed.denied_index_patterns # <<>>
    /\ Len(Installed.allowed_index_patterns) >= 2
    /\ ~_matches_pattern(result.arg, Installed.allowed_index_patterns[1])
    /\ result.decision = <<TRUE, None>>

\* t is r without the whitespace around it.
IsTrimOf(t, r) ==
    /\ t = <<>> \/ (t[1] \notin Whitespace /\ t[Len(t)] \notin Whitespace)
    /\ \E i \in 0..Len(r) : \E j \in i..Len(r) :
        /\ t = SubSeq(r, i + 1, j)
        /\ \A k \in (1..i) \cup ((j + 1)..Len(r)) : r[k] \in Whitespace

\* The positions of the segments that the single-name evaluator denies.
DeniedSegments(segs) ==
    {k \in 1..Len(segs) : ~_check_single_index(Installed, segs[k])[1]}

\* C6: on a non-empty expression is_index_allowed cuts the expression at
\* every ',', trims each segment, evaluates the segments left to right up
\* to the first denied one and returns that segment's decision, whose
\* reason names the trimmed segment; it returns (True, None) exactly when
\* every segment is allowed.
C6_SplitterResult ==
    (Returned("is_index_allowed") /\ ~Falsy(result.arg)) =>
        LET raw  == split(result.arg)
            segs == index_names(result.arg)
            bad  == DeniedSegments(segs)
        IN  /\ join(raw) = result.arg
            /\ \A k \in 1..Len(raw) : ~HasComma(raw[k])
            /\ Len(segs) = Len(raw)
            /\ \A k \in 1..Len(segs) : IsTrimOf(segs[k], raw[k])
            /\ Allowed <=> bad = {}
            /\ bad = {} =>
                /\ result.decision = <<TRUE, None>>
                /\ evaluated = segs
            /\ bad # {} =>
                LET k == CHOOSE m \in bad : \A n \in bad : m <= n
                    reason == result.decision[2]
                IN  /\ result.decision = _check_single_index(Installed, segs[k])
                    /\ evaluated = SubSeq(segs, 1, k)
                    /\ reason # None
                    /\ reason[1] = "Index \""
                    /\ SubSeq(reason, 2, Len(segs[k]) + 1) = segs[k]

C6_Witness ==
    /\ Returned("is_index_allowed")
    /\ ~Falsy(result.arg)
    /\ ~Allowed
    /\ Len(evaluated) < Len(index_names(result.arg))
    /\ split(result.arg)[Len(evaluated)] # evaluated[Len(evaluated)]
    /\ result.decision[2] = DeniedReason(evaluated[Len(evaluated)], <<"a">>)

\* C7: the single-name evaluator allows the empty name under every policy,
\* so an expression is allowed whenever all of its non-empty segments are.
C7_EmptySegmentsPass ==
    /\ (Returned("_check_single_index") /\ result.arg = <<>>) => Allowed
    /\ (Returned("is_index_allowed") /\ ~Falsy(result.arg)) =>
        LET segs == index_names(result.arg) IN
        (\A k \in 1..Len(segs) :
            segs[k] # <<>> => _check_single_index(Installed, segs[k])[1])
            => Allowed

\* C8: an empty or None expression is allowed with reason None under every
\* policy, and nothing is split or handed to the single-name evaluator.
C8_EmptyExpression ==
    (Returned("is_index_allowed") /\ Falsy(result.arg)) =>
        /\ result.decision = <<TRUE, None>>
        /\ evaluated = <<>>

C8_Witness ==
    /\ Returned("is_index_allowed")
    /\ result.arg = None
    /\ Installed.allowed_index_patterns # <<>>
    /\ MatchesSome(<<>>, Installed.denied_index_patterns)
    /\ result.decision = <<TRUE, None>>

\* C9: validate_index_access raises exactly when the decision of the policy
\* in force for the expression is deny, with the message "Index access
\* denied: " followed by the decision's reason; when the decision is allow
\* it returns, and neither an installed policy nor the environment changes.
C9_ValidationGate ==
    [][(/\ result.op = "validate_index_access"
        /\ result.at = "called"
        /\ result'.at = "returned")
       => LET policy ==
                  IF _index_filter_config = {}
                  THEN load_index_filter_config(<<>>, NoFile, environ)
                  ELSE Installed
              decision == is_index_allowed(policy, result.arg)
          IN  /\ (result'.raised # None) <=> ~decision[1]
              /\ ~decision[1] =>
                    result'.raised = <<"Index access denied: ">> \o decision[2]
              /\ _index_filter_config # {} =>
                    _index_filter_config' = _index_filter_config
              /\ _index_filter_config' \in {_index_filter_config, {policy}}
              /\ environ' = environ
              /\ _index_filter_config # {} => calls' = calls]_vars

C9_Witness ==
    /\ Returned("validate_index_access")
    /\ HasComma(result.arg)
    /\ Len(evaluated) = 2
    /\ environ.OPENSEARCH_DENIED_INDEX_PATTERNS # <<>>
    /\ result.raised =
        <<"Index access denied: ">> \o DeniedReason(evaluated[2], <<"a">>)

----------------------------------------------------------------------------
(* Properties of the tool handlers *)

\* A handler was given an index and has returned.
ToolReturnedWithIndex ==
    /\ result.op \in ToolNames
    /\ result.at = "returned"
    /\ ~Falsy(result.arg.index)

IsCheck(e) == e.call = "validate_index_access"

\* The access check ran and the installed policy denies the index.
CheckFailed ==
    /\ \E k \in 1..Len(calls) : IsCheck(calls[k])
    /\ ~is_index_allowed(Installed, result.arg.index)[1]

\* C10 as stated: a handler given an index sends no request to the cluster
\* before the access check, and none at all when the check fails.
C10_NoRemoteCallBeforeCheck ==
    ToolReturnedWithIndex =>
        /\ \A j \in 1..Len(calls) :
              calls[j].remote => \E k \in 1..(j - 1) : IsCheck(calls[k])
        /\ CheckFailed => \A j \in 1..Len(calls) : ~calls[j].remote

\* C10: a handler given an index calls get_opensearch_version first, whose
\* client.info() is the only request sent before the access check; its
\* data helper runs only after validate_index_access was called with that
\* index, and not at all when the check fails.
C10_GateBeforeDataCall ==
    ToolReturnedWithIndex =>
        /\ calls # <<>> /\ calls[1].call = "get_opensearch_version"
        /\ \A j \in 2..Len(calls) :
              ~IsCheck(calls[j]) =>
                  /\ j = 3
                  /\ IsCheck(calls[2])
                  /\ calls[2].index = result.arg.index
                  /\ calls[j].index = result.arg.index
        /\ \A j \in 2..Len(calls) : IsCheck(calls[j]) => j = 2
        /\ CheckFailed => Len(calls) = 2
        /\ (result.arg.compatible /\ ~CheckFailed) => Len(calls) = 3

C10_Witness ==
    /\ ToolReturnedWithIndex
    /\ CheckFailed
    /\ result.arg.client_ok
    /\ calls = << Event("get_opensearch_version", None, TRUE),
                  Event("validate_index_access", result.arg.index, FALSE) >>

----------------------------------------------------------------------------
(* Properties of the loader *)

\* load_index_filter_config has returned a policy.
Loaded == Returned("load_index_filter_config") /\ result.raised = None

ThePolicy == CHOOSE p \in result.ret : TRUE

\* The call read the two environment variables.
Consulted == \E i \in 1..Len(calls) : calls[i].call = "os.getenv"

\* A path was given and its document has, under index_security, at least
\* one list that is not empty.
FileYields ==
    /\ result.arg.config_file_path # <<>>
    /\ result.arg.file.kind = "section"
    /\ ~Falsy(result.arg.file.allowed) \/ ~Falsy(result.arg.file.denied)

\* The list a policy holds for a value of the file.
ListOf(x) == IF Falsy(x) THEN <<>> ELSE x

\* C11: when the document at the given path has at least one non-empty
\* list under index_security, load returns a policy whose two lists are
\* those of the file, and the environment variables are not read: a list
\* the file leaves empty is empty in the policy whatever the environment.
C11_FileWins ==
    (Returned("load_index_filter_config") /\ FileYields) =>
        /\ result.raised = None
        /\ ThePolicy.allowed_index_patterns = ListOf(result.arg.file.allowed)
        /\ ThePolicy.denied_index_patterns = ListOf(result.arg.file.denied)
        /\ ~Consulted

\* The file gives an allowed list only, the denied variable is set, and
\* the policy's denied list is empty.
C11_Witness ==
    /\ Returned("load_index_filter_config") /\ FileYields
    /\ Falsy(result.arg.file.denied)
    /\ environ.OPENSEARCH_DENIED_INDEX_PATTERNS = <<"a", ",", " ", "*", ",">>
    /\ ThePolicy.denied_index_patterns = <<>>
    /\ ThePolicy.allowed_index_patterns = <<<<"a", "*">>, <<"a">>>>

\* C12: when no path is given, or the file is absent, has no
\* index_security section or yields no patterns, a load that returns took
\* both lists from the two environment variables, and both lists are
\* empty when the variables are unset or empty.
C12_FallbackChain ==
    (Loaded /\ ~FileYields) =>
        /\ Consulted
        /\ ThePolicy =
              IndexFilterConfig(
                  env_patterns(environ.OPENSEARCH_ALLOWED_INDEX_PATTERNS, <<>>),
                  env_patterns(environ.OPENSEARCH_DENIED_INDEX_PATTERNS, <<>>))
        /\ (environ = NoEnviron =>
                ThePolicy = IndexFilterConfig(<<>>, <<>>))

\* A file without the section is given and the denied list comes from the
\* environment.
C12_Witness ==
    /\ Loaded
    /\ result.arg.config_file_path # <<>>
    /\ result.arg.file.kind = "no_section"
    /\ environ.OPENSEARCH_ALLOWED_INDEX_PATTERNS = <<>>
    /\ environ.OPENSEARCH_DENIED_INDEX_PATTERNS = <<"a", ",", " ", "*", ",">>
    /\ ThePolicy = IndexFilterConfig(<<>>, <<<<"a">>, <<"*">>>>)

\* The list an environment value stands for: the elements of the JSON
\* array (none when it does not parse) when is_json, the trimmed non-empty
\* segments between commas otherwise.
EnvList(value, is_json) ==
    IF is_json
    THEN IF json_loads(value).ok THEN json_loads(value).value ELSE <<>>
    ELSE comma_separated(value)

\* C13 as stated: each environment value is parsed on its own; a value
\* whose first character is '[' is parsed as a JSON array, any other value
\* is split on ',' with each segment trimmed and the empty ones dropped.
C13_FirstCharacterDecides ==
    (Loaded /\ ~FileYields) =>
        /\ ThePolicy.allowed_index_patterns =
              EnvList(environ.OPENSEARCH_ALLOWED_INDEX_PATTERNS,
                      startswith(environ.OPENSEARCH_ALLOWED_INDEX_PATTERNS, <<"[">>))
        /\ ThePolicy.denied_index_patterns =
              EnvList(environ.OPENSEARCH_DENIED_INDEX_PATTERNS,
                      startswith(environ.OPENSEARCH_DENIED_INDEX_PATTERNS, <<"[">>))

\* C13: each environment value is parsed on its own; a value whose first
\* character after leading whitespace is '[' is parsed as a JSON array and
\* its elements are the list in order, any other value is split on ','
\* with each segment trimmed, the empty ones dropped and the order kept.
C13_EnvParsing ==
    (Loaded /\ ~FileYields) =>
        /\ ThePolicy.allowed_index_patterns =
              EnvList(environ.OPENSEARCH_ALLOWED_INDEX_PATTERNS,
                      startswith(strip(environ.OPENSEARCH_ALLOWED_INDEX_PATTERNS),
                                 <<"[">>))
        /\ ThePolicy.denied_index_patterns =
              EnvList(environ.OPENSEARCH_DENIED_INDEX_PATTERNS,
                      startswith(strip(environ.OPENSEARCH_DENIED_INDEX_PATTERNS),
                                 <<"[">>))

\* A JSON array behind a blank and a comma-separated list with a blank and
\* an empty segment, each parsed its own way.
C13_Witness ==
    /\ Loaded /\ ~FileYields
    /\ environ.OPENSEARCH_ALLOWED_INDEX_PATTERNS =
          <<" ", "[", "\"", "a", "\"", "]">>
    /\ environ.OPENSEARCH_DENIED_INDEX_PATTERNS = <<"a", ",", " ", "*", ",">>
    /\ ThePolicy = IndexFilterConfig(<<<<"a">>>>, <<<<"a">>, <<"*">>>>)

\* C14 as stated: for every file and every environment value, load
\* returns a policy and no exception leaves it.
C14_LoadNeverFails ==
    Returned("load_index_filter_config") =>
        result.raised = None /\ result.ret # {}

----------------------------------------------------------------------------
(* Properties of the process-wide policy *)

\* The calls logged for the last operation that went to `call`.
Logged(log, call) == \E i \in 1..Len(log) : log[i].call = call

\* C15: a load that returns stores the policy it returns as the global,
\* whatever the global held; the accessor returns the global as the last
\* load left it, and validate_index_access decides by that policy.
C15_ReloadSemantics ==
    [][ /\ (result'.op = "load_index_filter_config" /\ result'.raised = None)
            => (result'.ret # {} /\ _index_filter_config' = result'.ret)
        /\ (result'.op = "get_index_filter_config" /\ _index_filter_config # {})
            => (/\ result'.ret = _index_filter_config
                /\ _index_filter_config' = _index_filter_config)
        /\ (/\ result'.op = "validate_index_access"
            /\ _index_filter_config # {}
            /\ result'.arg # <<>>)
            => (/\ _index_filter_config' = _index_filter_config
                /\ result'.raised =
                      IF is_index_allowed(Installed, result'.arg)[1] THEN None
                      ELSE AccessDenied(
                               is_index_allowed(Installed, result'.arg)[2]))
      ]_vars

\* A check is decided by the policy of an explicit load from a file, under
\* an environment whose own policy would allow the name.
C15_Witness ==
    /\ Returned("validate_index_access")
    /\ result.arg = <<"a", "a">>
    /\ _index_filter_config =
          {IndexFilterConfig(<<>>, <<<<"a">>, <<"a", "a">>>>)}
    /\ environ.OPENSEARCH_ALLOWED_INDEX_PATTERNS =
          <<"[", "\"", "a", "a", "\"", "]">>
    /\ result.raised =
          AccessDenied(DeniedReason(<<"a", "a">>, <<"a", "a">>))

\* C16: the accessor loads, with no path, only while the global is None;
\* once the global is set the accessor returns it unchanged without
\* reading the file or the environment, and no call sets the global back
\* to None.
C16_LazyAccessor ==
    [][ /\ (_index_filter_config # {} => _index_filter_config' # {})
        /\ (result'.op = "get_index_filter_config" /\ _index_filter_config # {})
            => (/\ calls' = <<>>
                /\ result'.ret = _index_filter_config
                /\ _index_filter_config' = _index_filter_config)
        /\ (result'.op = "get_index_filter_config" /\ _index_filter_config = {})
            => (/\ Logged(calls', "os.getenv")
                /\ ~Logged(calls', "open")
                /\ (result'.raised = None =>
                       /\ result'.ret # {}
                       /\ _index_filter_config' = result'.ret))
      ]_vars

\* The accessor has returned the allow-all policy loaded earlier, with no
\* read, while the environment now names a denied pattern.
C16_Witness ==
    /\ Returned("get_index_filter_config")
    /\ calls = <<>>
    /\ result.ret = {IndexFilterConfig(<<>>, <<>>)}
    /\ _index_filter_config = result.ret
    /\ environ.OPENSEARCH_DENIED_INDEX_PATTERNS = <<"a">>

----------------------------------------------------------------------------
(* Properties of the decisions *)

\* The last call ended in a denial: a decision (False, reason) of the
\* evaluators, or the exception of validate_index_access.
Denial ==
    \/ (Returned("is_index_allowed") \/ Returned("_check_single_index"))
       /\ ~result.decision[1]
    \/ Returned("validate_index_access") /\ result.raised # None

\* Its reason: what the evaluator returned, or the message of the
\* exception after "Index access denied: ".
Reason ==
    IF Returned("validate_index_access") THEN Tail(result.raised)
    ELSE result.decision[2]

\* The segment that was denied is the last one evaluated.
DeniedName == evaluated[Len(evaluated)]

\* The reason starts with the quoted name n.
NamesIndex(reason, n) ==
    /\ Len(reason) >= Len(n) + 2
    /\ reason[1] = "Index \""
    /\ SubSeq(reason, 2, Len(n) + 1) = n
    /\ reason[Len(n) + 2] \in {"\" matches denied pattern: ",
                               "\" does not match any allowed patterns"}

\* What follows the name and the message in the reason.
NamedPattern(reason, n) == SubSeq(reason, Len(n) + 3, Len(reason))

\* C17 as stated: every denial carries a reason that names the index name
\* that was denied and a pattern of the policy.
C17_ReasonNamesPatternAndIndex ==
    Denial =>
        /\ Reason # None
        /\ NamesIndex(Reason, DeniedName)
        /\ \/ \E k \in 1..Len(Installed.denied_index_patterns) :
                 NamedPattern(Reason, DeniedName)
                     = Installed.denied_index_patterns[k]
           \/ \E k \in 1..Len(Installed.allowed_index_patterns) :
                 NamedPattern(Reason, DeniedName)
                     = Installed.allowed_index_patterns[k]

\* C17: every denial carries a reason that names the index name that was
\* denied; when the name matches a denied pattern the reason ends with the
\* first such pattern, otherwise the allowed list is not empty, the name
\* matches none of its patterns and the reason names no pattern.
C17_DenialReason ==
    Denial =>
        /\ Reason # None
        /\ NamesIndex(Reason, DeniedName)
        /\ IF MatchesSome(DeniedName, Installed.denied_index_patterns)
           THEN \E k \in 1..Len(Installed.denied_index_patterns) :
                  /\ NamedPattern(Reason, DeniedName)
                        = Installed.denied_index_patterns[k]
                  /\ _matches_pattern(DeniedName,
                                      Installed.denied_index_patterns[k])
                  /\ \A j \in 1..(k - 1) :
                        ~_matches_pattern(DeniedName,
                                          Installed.denied_index_patterns[j])
           ELSE /\ NamedPattern(Reason, DeniedName) = <<>>
                /\ Installed.allowed_index_patterns # <<>>
                /\ ~MatchesSome(DeniedName, Installed.allowed_index_patterns)

\* validate_index_access raises for the second segment of an expression,
\* naming the segment and the second denied pattern, the first one that
\* matches it.
C17_Witness ==
    /\ Returned("validate_index_access")
    /\ result.raised # None
    /\ Len(evaluated) = 2
    /\ Len(Installed.denied_index_patterns) = 2
    /\ ~_matches_pattern(DeniedName, Installed.denied_index_patterns[1])
    /\ NamedPattern(Reason, DeniedName) = Installed.denied_index_patterns[2]

\* C18: no evaluation changes the policy: across a call of
\* is_index_allowed, _check_single_index or validate_index_access the
\* installed policy keeps both lists, in content and in order.
C18_PolicyImmutable ==
    [][ _index_filter_config # {} =>
            /\ _index_filter_config' # {}
            /\ PolicyOf(_index_filter_config').allowed_index_patterns
                  = Installed.allowed_index_patterns
            /\ PolicyOf(_index_filter_config').denied_index_patterns
                  = Installed.denied_index_patterns
      ]_vars

\* validate_index_access has gone through two segments, past a denied
\* pattern that matched neither and two allowed patterns of which the
\* second matched, and the lists are as installed.
C18_Witness ==
    /\ Returned("validate_index_access")
    /\ result.raised = None
    /\ Len(evaluated) = 2
    /\ \A k \in 1..2 : Literal(evaluated[k])
    /\ _index_filter_config =
          {IndexFilterConfig(<<RegexTag \o <<"a", "a">>, <<"a">>>>,
                             <<RegexTag \o <<"a", "a">>>>)}

----------------------------------------------------------------------------
(* Properties under concurrent callers *)

\* Every thread runs the accessor or validate_index_access.
OnlyAccessors ==
    \A t \in Tids : threads[t].op # "load_index_filter_config"

\* The threads whose call has returned or raised.
Done == {t \in Tids : threads[t].pc = "done"}

\* C19 as stated: when only accessors and checks run, at most one policy
\* is constructed and stored by the lazy initialisation, and all callers
\* obtain that same policy.
C19_GuardedLazyInit ==
    OnlyAccessors =>
        /\ Cardinality({t \in Tids : threads[t].constructed}) <= 1
        /\ \A t, u \in Done : threads[t].config = threads[u].config

\* The policies that some load has constructed and assigned, and the one
\* the global held at the start.
Published ==
    {result.ret}
    \cup {{IndexFilterConfig(threads[u].allowed_patterns,
                             threads[u].denied_patterns)} :
            u \in {w \in Tids : threads[w].constructed}}

\* The exception validate_index_access ends with under policy p.
Verdict(p, index) ==
    IF is_index_allowed(p, index)[1] THEN None
    ELSE AccessDenied(is_index_allowed(p, index)[2])

\* C20: a check that runs while loads replace the global holds, from its
\* first segment on, one policy that a load constructed in full (or the
\* one installed at the start), and its whole decision is the decision of
\* that one policy on the expression.
C20_AtomicSwap ==
    \A t \in Tids :
        (/\ threads[t].op = "validate_index_access"
         /\ threads[t].pc \in {"segment", "done"})
        => /\ threads[t].config # {}
           /\ threads[t].config \in Published
           /\ threads[t].pc = "done" =>
                 threads[t].raised
                     = Verdict(PolicyOf(threads[t].config), threads[t].index)

\* A check of "b, a" ended with the denial of a by the old policy, after
\* it passed b, while a load from the file has made the global deny b.
C20_Witness ==
    \E t, u \in Tids :
        /\ threads[t].op = "validate_index_access"
        /\ threads[t].pc = "done"
        /\ threads[t].k = 2
        /\ threads[t].config = {IndexFilterConfig(<<>>, <<<<"a">>>>)}
        /\ threads[t].raised = AccessDenied(DeniedReason(<<"a">>, <<"a">>))
        /\ threads[u].op = "load_index_filter_config"
        /\ threads[u].pc = "done"
        /\ _index_filter_config = {IndexFilterConfig(<<>>, <<<<"b">>>>)}

----------------------------------------------------------------------------
(* Properties of the matcher *)

\* The name and the pattern of the last call of the matcher.
MatchedName == result.arg.index_name

MatchedPattern == result.arg.pattern

IsRegex == startswith(MatchedPattern, RegexTag)

\* The regular expression behind the tag.
Regex == SubSeq(MatchedPattern, 7, Len(MatchedPattern))

\* Every character of s is a letter.
Letters(s) == \A i \in 1..Len(s) : s[i] \in {"a", "A"}

\* The regular expression is well formed: no group is left open and every
\* '*' follows a character it can repeat.
Compiles(R) ==
    \A i \in 1..Len(R) :
        /\ R[i] # "("
        /\ R[i] = "*" => (i > 1 /\ R[i - 1] \notin {"*", "^", "$", "("})

\* The atom c stands for the character ch.
Stands(c, ch) == IF c = "." THEN ch # "\n" ELSE c = ch

\* Position j (the number of characters before it) is the end of the name
\* for '$': the end itself, or just before a final newline.
AtEnd(name, j) ==
    \/ j = Len(name)
    \/ (j = Len(name) - 1 /\ name[Len(name)] = "\n")

\* The well-formed regular expression R, read from its last item back,
\* matches exactly the characters i+1..j of name.
RECURSIVE Spans(_, _, _, _)
Spans(R, name, i, j) ==
    IF R = <<>> THEN i = j
    ELSE LET n == Len(R) IN
         IF R[n] = "*"
         THEN \E m \in i..j :
                 /\ \A x \in (m + 1)..j : Stands(R[n - 1], name[x])
                 /\ Spans(SubSeq(R, 1, n - 2), name, i, m)
         ELSE IF R[n] = "^"
         THEN j = 0 /\ Spans(SubSeq(R, 1, n - 1), name, i, j)
         ELSE IF R[n] = "$"
         THEN AtEnd(name, j) /\ Spans(SubSeq(R, 1, n - 1), name, i, j)
         ELSE /\ j > i
              /\ Stands(R[n], name[j])
              /\ Spans(SubSeq(R, 1, n - 1), name, i, j - 1)

\* R matches a prefix of the name, and R matches somewhere after the start.
MatchesPrefix(R, name) == \E j \in 0..Len(name) : Spans(R, name, 0, j)

MatchesLater(R, name) ==
    \E i \in 1..Len(name) : \E j \in i..Len(name) : Spans(R, name, i, j)

\* C21: a pattern "regex:R" whose R is well formed matches a name exactly
\* when R matches a prefix of the name that begins at position 0: a match
\* of R later in the name does not count, and the match need not reach the
\* end of the name.  So the regex of a literal L matches every name that
\* starts with L, the regex L$ matches L alone (and L before a final
\* newline), while the glob L matches no name but L.
C21_StartAnchored ==
    Returned("_matches_pattern") =>
        /\ (IsRegex /\ Compiles(Regex)) =>
              /\ result.raised = None
              /\ result.ret <=> MatchesPrefix(Regex, MatchedName)
              /\ Letters(Regex) =>
                    (result.ret <=> startswith(MatchedName, Regex))
              /\ (/\ Regex # <<>>
                  /\ Regex[Len(Regex)] = "$"
                  /\ Letters(SubSeq(Regex, 1, Len(Regex) - 1))) =>
                    (result.ret <=>
                        MatchedName \in
                            {SubSeq(Regex, 1, Len(Regex) - 1),
                             SubSeq(Regex, 1, Len(Regex) - 1) \o <<"\n">>})
        /\ (~IsRegex /\ Letters(MatchedPattern)) =>
              (result.ret <=> MatchedName = MatchedPattern)

\* The regex a. matched "aAa", whose prefix "aA" it matches and no more.
C21_Witness ==
    /\ Returned("_matches_pattern")
    /\ MatchedPattern = RegexTag \o <<"a", ".">>
    /\ MatchedName = <<"a", "A", "a">>
    /\ result.ret
    /\ ~Spans(Regex, MatchedName, 0, Len(MatchedName))

\* The pattern is a regex that compiles, or a glob.
Usable(pattern) ==
    startswith(pattern, RegexTag) => Compiles(SubSeq(pattern, 7, Len(pattern)))

\* The policy without the regex patterns that do not compile.
UsablePart(self) ==
    IndexFilterConfig(
        SelectSeq(self.allowed_index_patterns, Usable),
        SelectSeq(self.denied_index_patterns, Usable))

\* A pattern that does not compile stands in a list before one that does.
BrokenThenUsable(patterns) ==
    \E i, j \in 1..Len(patterns) :
        i < j /\ ~Usable(patterns[i]) /\ Usable(patterns[j])

\* The evaluation of a name goes on past the patterns that do not compile:
\* a list that holds one is not taken for empty, and the decision is the
\* one the other patterns give.
SkipsBrokenPatterns ==
    (Returned("_check_single_index") /\ Literal(result.arg)) =>
        result.decision =
            IF /\ ~MatchesSome(result.arg, Installed.denied_index_patterns)
               /\ Installed.allowed_index_patterns # <<>>
               /\ UsablePart(Installed).allowed_index_patterns = <<>>
            THEN <<FALSE, NotAllowedReason(result.arg)>>
            ELSE _check_single_index(UsablePart(Installed), result.arg)

\* C22 as stated: a "regex:" pattern that does not compile is a non-match
\* and no failure: the matcher returns false for every name, no exception
\* leaves it, and the patterns after it in the list are still evaluated.
C22_InvalidRegexNoMatch ==
    /\ (Returned("_matches_pattern") /\ IsRegex /\ ~Compiles(Regex)) =>
            /\ result.raised = None
            /\ ~result.ret
    /\ SkipsBrokenPatterns

\* The glob pat, read from its last character back, matches exactly the
\* first j characters of name.
RECURSIVE Glob(_, _, _)
Glob(pat, name, j) ==
    IF pat = <<>> THEN j = 0
    ELSE LET front == SubSeq(pat, 1, Len(pat) - 1) IN
         IF pat[Len(pat)] = "*"
         THEN \E m \in 0..j : Glob(front, name, m)
         ELSE IF pat[Len(pat)] = "?"
         THEN j > 0 /\ Glob(front, name, j - 1)
         ELSE j > 0 /\ name[j] = pat[Len(pat)] /\ Glob(front, name, j - 1)

----------------------------------------------------------------------------
(* Properties of the reasons *)

\* The position in the list of the earliest pattern that matches n.
Earliest(n, patterns) ==
    CHOOSE k \in 1..Len(patterns) :
        /\ _matches_pattern(n, patterns[k])
        /\ \A j \in 1..(k - 1) : ~_matches_pattern(n, patterns[j])

\* C24: the reason of a denial is, when the denied name matches patterns of
\* the denied list, 'Index "<name>" matches denied pattern: <p>' with p the
\* earliest of them in the order of the list, and otherwise
\* 'Index "<name>" does not match any allowed patterns'.
C24_FirstDeniedPattern ==
    Denial =>
        Reason =
            IF MatchesSome(DeniedName, Installed.denied_index_patterns)
            THEN <<"Index \"">> \o DeniedName
                 \o <<"\" matches denied pattern: ">>
                 \o Installed.denied_index_patterns[
                        Earliest(DeniedName, Installed.denied_index_patterns)]
            ELSE <<"Index \"">> \o DeniedName
                 \o <<"\" does not match any allowed patterns">>

\* The name a matches the second and the third of three denied patterns
\* and the reason names the second.
C24_Witness ==
    /\ Returned("_check_single_index")
    /\ result.arg = <<"a">>
    /\ Installed.denied_index_patterns =
          <<RegexTag \o <<"a", "a">>, <<"a", "*">>, <<"a">>>>
    /\ result.decision =
          <<FALSE, <<"Index \"", "a", "\" matches denied pattern: ", "a", "*">>>>

----------------------------------------------------------------------------
(* Properties of a denied request *)

\* The functions of helper.py that fetch data for the handlers.
DataHelpers == {t.helper : t \in IndexTools} \cup {"get_index", "list_indices"}

\* The text the handler returned holds the message of the access check
\* and, from there to its end, the reason.
CarriesDenial(text, reason) ==
    \E k \in 1..Len(text) :
        /\ text[k] = "Index access denied: "
        /\ SubSeq(text, k + 1, Len(text)) = reason

\* C25: when a handler is given an index that the policy denies and its
\* access check runs, no data helper is called, and the handler returns a
\* text that holds "Index access denied: " and the reason of the denial.
C25_DeniedNeverFetches ==
    (ToolReturnedWithIndex /\ CheckFailed) =>
        /\ \A j \in 1..Len(calls) : calls[j].call \notin DataHelpers
        /\ result.text # None
        /\ CarriesDenial(result.text,
                         is_index_allowed(Installed, result.arg.index)[2])

\* get_cluster_state_tool, whose check is optional, was given "b, a" under
\* a policy that denies a: it returned the denial of a and fetched nothing.
C25_Witness ==
    /\ ToolReturnedWithIndex
    /\ result.op = "get_cluster_state_tool"
    /\ result.arg.index = <<"b", ",", " ", "a">>
    /\ result.arg.client_ok /\ result.arg.remote_ok
    /\ result.text =
          <<"Error getting cluster state: ", "Index access denied: ">>
          \o DeniedReason(<<"a">>, <<"a">>)
    /\ \A j \in 1..Len(calls) : calls[j].call \notin DataHelpers

----------------------------------------------------------------------------
(* Properties of a reload that fails *)

\* The file at the given path cannot be read or parsed.
FileFails(arg) ==
    /\ arg.config_file_path # <<>>
    /\ arg.file.kind \in {"missing", "unreadable", "malformed"}

\* The policy the two environment variables stand for.
EnvPolicy ==
    IndexFilterConfig(
        EnvList(environ.OPENSEARCH_ALLOWED_INDEX_PATTERNS,
                startswith(strip(environ.OPENSEARCH_ALLOWED_INDEX_PATTERNS),
                           <<"[">>)),
        EnvList(environ.OPENSEARCH_DENIED_INDEX_PATTERNS,
                startswith(strip(environ.OPENSEARCH_DENIED_INDEX_PATTERNS),
                           <<"[">>)))

\* The step is a load, under an installed policy, of a file that fails.
FailedReload ==
    /\ result.op = "load_index_filter_config" /\ result.at = "called"
    /\ result'.at = "returned"
    /\ FileFails(result.arg)
    /\ _index_filter_config # {}

\* C26 as stated: a load of a file that cannot be read or parsed, called
\* while a restrictive policy is installed, still overwrites the global,
\* with the policy of the environment variables, which is the empty policy
\* when they are unset: the names denied before are then allowed.
C26_FailedReloadReplaces ==
    [][ FailedReload =>
            /\ _index_filter_config' = {EnvPolicy}
            /\ environ = NoEnviron =>
                  /\ _index_filter_config' = {IndexFilterConfig(<<>>, <<>>)}
                  /\ \A n \in Names :
                        is_index_allowed(PolicyOf(_index_filter_config'), n)[1]
      ]_vars

----------------------------------------------------------------------------
(* Properties of a listing *)

\* The step is a run of list_indices_tool that was given no index.
ListsAll ==
    /\ result.op = "list_indices_tool" /\ result.at = "called"
    /\ result'.at = "returned"
    /\ Falsy(result.arg.index)

\* C27: list_indices_tool without an index does not call the access
\* check; it calls list_indices once when the version is compatible, with
\* the allowed patterns of the current policy in their order, separated by
\* ',', when that list is not empty, and with no index when it is empty,
\* whatever the denied list holds; an installed policy is the same after
\* the call.
C27_ListingNarrowedToAllowed ==
    [][ ListsAll =>
            /\ \A j \in 1..Len(calls') : ~IsCheck(calls'[j])
            /\ \A j \in 1..Len(calls') :
                  calls'[j].call = "list_indices" =>
                      IF PolicyOf(_index_filter_config').allowed_index_patterns
                             # <<>>
                      THEN split(calls'[j].index) =
                              PolicyOf(_index_filter_config')
                                  .allowed_index_patterns
                      ELSE Falsy(calls'[j].index)
            /\ result.arg.compatible =>
                  Cardinality({j \in 1..Len(calls') :
                                  calls'[j].call = "list_indices"}) = 1
            /\ _index_filter_config # {} =>
                  _index_filter_config' = _index_filter_config
      ]_vars

\* A listing under a policy with an allowed pattern and two denied ones
\* asked the cluster for the allowed pattern.
C27_Witness ==
    /\ result.op = "list_indices_tool" /\ result.at = "returned"
    /\ result.arg.index = None
    /\ _index_filter_config =
          {IndexFilterConfig(<<<<"a", "*">>>>, <<<<"a", "a">>, <<"a">>>>)}
    /\ calls = << Event("get_opensearch_version", None, TRUE),
                  Event("list_indices", <<"a", "*">>, TRUE) >>

----------------------------------------------------------------------------
(* Properties of the check of an empty index *)

\* The step is a call of validate_index_access with '' or None.
ChecksNothing ==
    /\ result.op = "validate_index_access" /\ result.at = "called"
    /\ result'.at = "returned"
    /\ Falsy(result.arg)

\* C28: validate_index_access with an empty or None index returns without
\* an exception, leaves the global as it was, None included, reads neither
\* the file nor the environment and evaluates no name.
C28_EmptyIndexTouchesNothing ==
    [][ ChecksNothing =>
            /\ result'.raised = None
            /\ _index_filter_config' = _index_filter_config
            /\ calls' = <<>>
            /\ evaluated' = <<>>
      ]_vars

\* The check of None has returned while the global is None, under an
\* environment that holds a denied list.
C28_Witness ==
    /\ Returned("validate_index_access")
    /\ result.arg = None
    /\ result.raised = None
    /\ _index_filter_config = {}
    /\ environ.OPENSEARCH_DENIED_INDEX_PATTERNS = <<"a", ",", " ", "*", ",">>
    /\ calls = <<>>

====
